---------------------------- MODULE Spec2Model ----------------------------
(***************************************************************************)
(* AG-1 data logger firmware: FAT16 storage engine, SD block transport,    *)
(* double-buffered capture pipeline and circular pre-roll recorder.        *)
(*                                                                         *)
(* The module holds several specifications over one set of variables:      *)
(*   SpecFat   the FAT allocator (find_cluster / update_fat) under the     *)
(*             call pattern of the session layers;                         *)
(*   SpecZapp  zapp/main.c: main, start_logging, CCR0_ISR, PORT1_ISR;      *)
(*   SpecLog   test/main.c: start_logging of the sensor variant;           *)
(*   SpecScan  find_cluster, one FAT sector per step;                      *)
(*   SpecDir   get_file_num and update_dir_table on tables of 1..3 sectors;*)
(*   SpecSd    init_sd, go_idle_sd, write_block, read_block;               *)
(*   SpecBoot  zapp/main.c: main from wake-up to start_logging;            *)
(*   SpecLink  update_fat as start_logging calls it, on FATs of 1 to 256   *)
(*             sectors;                                                    *)
(*   SpecUsed  zapp/main.c as SpecZapp, on a card that holds a file;       *)
(*   SpecSdRun SpecSd with the processor running on in every operation;    *)
(*   SpecNames the directory commit of start_logging, session after        *)
(*             session.                                                    *)
(* A specification leaves the variables of the other parts unchanged.      *)
(*                                                                         *)
(* Representation.  The card is typed by region.  A FAT sector is 256      *)
(* 16-bit words (the code reads and writes the two bytes of an entry       *)
(* together, at even byte indices).  A block in a buffer or in the data    *)
(* area is a record with a field kind.                                     *)
(***************************************************************************)
EXTENDS Integers, Sequences, FiniteSets, TLC

(***************************************************************************)
(* Bounds of the model                                                     *)
(***************************************************************************)
\* number_of_fats ranges over 1..MaxFats
MaxFats == 3
\* sectors_per_fat ranges over 1..MaxSectorsPerFat
MaxSectorsPerFat == 2
\* files opened by the abstract session layer of SpecFat
MaxFiles == 2

(***************************************************************************)
(* Program constants                                                       *)
(***************************************************************************)
\* bytes per sector / block (the literal 512 of sdfat.c)
SectorSize == 512
\* end-of-chain mark written by find_cluster (data[j] = data[j+1] = 0xFF)
EOC == 65535
\* uint16_t range
U16 == 65536

WordsPerSector == SectorSize \div 2

VARIABLES
  \* ---- volume geometry (sdfat.c globals) and card contents
  number_of_fats,   \* uint8_t number_of_fats
  fat_size,         \* uint32_t fat_size, bytes per FAT
  fat,              \* card: fat[k][e] = entry e of FAT copy k
  \* ---- SpecFat: the buffer handed to the allocator and its caller
  data,             \* uint8_t *data (sector buffer)
  files,            \* session layer: <<[start, cur]>> per open file
  pending,          \* session layer: [f, tmp16] between find_cluster and update_fat
  returned,         \* history: nonzero results of find_cluster, in call order
  call              \* history: the last allocator call and its result

VARIABLES
  \* ---- SpecZapp: card regions besides the FAT
  sectors_per_cluster, \* fatinfo.nsectsinclust
  dir,              \* card: directory table, one record per 32-byte entry
  disk,             \* card: data area, byte offset of a block -> block
  \* ---- zapp/main.c globals
  data_mic,         \* uint8_t *data_mic
  data_sd,          \* uint8_t *data_sd
  buffers,          \* contents of data_mic_buff and data_sd_buff
  byte_num,         \* uint16_t byte_num
  dump_data,        \* uint8_t dump_data
  logging,          \* uint8_t logging
  stop_flag,        \* uint8_t stop_flag
  hold_flag,        \* uint8_t hold_flag
  \* ---- machine state
  gie,              \* global interrupt enable (SR.GIE)
  timer,            \* Timer0_A5 running with CCIE set
  pc,               \* position of main context
  isr,              \* position inside CCR0_ISR ("idle" outside)
  swap,             \* uint8_t *swap, local of CCR0_ISR
  rc,               \* log_error: last return value of start_logging
  sl,               \* locals of start_logging
  wr,               \* the write_block call in progress in the ring loop
  \* ---- history
  nsamp,            \* samples taken so far (the value of the next sample)
  filled,           \* buffers completed by CCR0_ISR since power-up, in fill order
  ringlog,          \* ring-loop writes that returned 0 since power-up, in order
  copied,           \* ring slots copied by the current extraction, in order
  overruns,         \* buffers completed while the previous one was undrained
  patch,            \* outcome of the last header patch
  presses,          \* CTRL button presses so far
  round,            \* recording rounds started so far
  iofail            \* failed block transfers so far

VARIABLES
  \* ---- SpecLog: test/main.c
  lg                \* locals of start_logging of the sensor variant, and history

VARIABLES
  \* ---- the card driver and the mount, step by step
  scan,             \* SpecScan: locals of find_cluster while it runs
  cs,               \* chip select line of the card (P4.7)
  sd,               \* SpecSd: the transport operation in progress
  card,             \* SpecSd: the card's mode and its stored blocks
  boot              \* SpecBoot: the boot sector read and the result of the mount

fatVars == <<number_of_fats, fat_size, fat>>
clientVars == <<data, files, pending, returned, call>>
cardVars == <<sectors_per_cluster, dir, disk>>
progVars == <<data_mic, data_sd, buffers, byte_num, dump_data, logging,
              stop_flag, hold_flag>>
machVars == <<gie, timer, pc, isr, swap, rc, sl, wr>>
histVars == <<nsamp, filled, ringlog, copied, overruns, patch, presses, round,
              iofail>>
zappVars == <<cardVars, progVars, machVars, histVars>>
driverVars == <<scan, cs, sd, card, boot>>
vars == <<fatVars, clientVars, zappVars, lg, driverVars>>

\* the driver parts at rest
DriverOff ==
  /\ scan = [pc |-> "off"]
  /\ cs = "high"
  /\ sd = [pc |-> "off"]
  /\ card = [mode |-> "off"]
  /\ boot = [pc |-> "off"]

(***************************************************************************)
(* Blocks                                                                  *)
(***************************************************************************)
NoBlock == [kind |-> "none"]
FatBlock(w) == [kind |-> "fat", w |-> w]

\* read_block(fat_offset + 512*s) on FAT copy k
FatSector(F, k, s) ==
  [x \in 1..WordsPerSector |->
     LET e == (s * WordsPerSector) + x - 1
     IN IF e \in DOMAIN F[k] THEN F[k][e] ELSE EOC]

\* write_block(fat_offset + (k-1)*fat_size + 512*s, 512) of sector image w
PutFatSector(F, k, s, w) ==
  [F EXCEPT ![k] = [e \in DOMAIN F[k] |->
      IF e \div WordsPerSector = s THEN w[(e % WordsPerSector) + 1] ELSE F[k][e]]]

(***************************************************************************)
(* find_cluster: scan the first FAT for a zero entry, mark it 0xFFFF,      *)
(* write the sector to the first and (if number_of_fats > 1) the second    *)
(* FAT.  io is the ordinal of the block transfer of this call that fails   *)
(* (0: none fails).  The result is the return value, the card's FAT and    *)
(* the buffer after the call.                                              *)
(***************************************************************************)
\* the first word index (1-based) of sector image b that is zero, 0 if none:
\* the inner steps of the for loop, data[j] == 0x00 && data[j+1] == 0x00
FirstZeroWord(b) ==
  LET Z == {x \in 1..WordsPerSector : b[x] = 0}
  IN IF Z = {} THEN 0 ELSE CHOOSE x \in Z : \A y \in Z : x <= y

\* one pass of the for loop per sector: i is the byte index at the sector's
\* start (uint16_t i, so i + 512 wraps at 65536), n the transfers done so far
RECURSIVE fc_loop(_, _, _, _, _, _, _)
fc_loop(F, nf, fsz, i, buf, n, io) ==
  IF ~(i < fsz) THEN [ret |-> 0, fat |-> F, data |-> buf]
  ELSE IF io = n + 1 THEN [ret |-> 0, fat |-> F, data |-> buf]
  ELSE
    LET s == i \div SectorSize
        b == FatSector(F, 1, s)
        x == FirstZeroWord(b)
    IN IF x = 0
       THEN fc_loop(F, nf, fsz, (i + SectorSize) % U16, FatBlock(b), n + 1, io)
       ELSE
         LET b2 == [b EXCEPT ![x] = EOC]
             F1 == PutFatSector(F, 1, s, b2)
             c  == ((i + (2 * (x - 1))) \div 2) % U16
         IN IF io = n + 2
            THEN [ret |-> 0, fat |-> F, data |-> FatBlock(b2)]
            ELSE IF nf > 1
            THEN IF io = n + 3
                 THEN [ret |-> 0, fat |-> F1, data |-> FatBlock(b2)]
                 ELSE [ret |-> c, fat |-> PutFatSector(F1, 2, s, b2),
                       data |-> FatBlock(b2)]
            ELSE [ret |-> c, fat |-> F1, data |-> FatBlock(b2)]

\* a find_cluster that forgets to write the claimed sector back
find_cluster_nowrite(F, nf, fsz, buf, io) ==
  [fc_loop(F, nf, fsz, 0, buf, 0, io) EXCEPT !.fat = F]

\* a find_cluster that returns the entry after the one it claimed
find_cluster_offbyone(F, nf, fsz, buf, io) ==
  LET r == fc_loop(F, nf, fsz, 0, buf, 0, io)
  IN [r EXCEPT !.ret = IF r.ret = 0 THEN 0 ELSE r.ret + 1]

find_cluster(F, nf, fsz, buf, io) == fc_loop(F, nf, fsz, 0, buf, 0, io)

\* an update_fat that does not read the sector before it changes the word
update_fat_blank(F, nf, fsz, buf, index, num, io) ==
  LET s  == (index - (index % SectorSize)) \div SectorSize
      b2 == [x \in 1..WordsPerSector |->
               IF x = ((index % SectorSize) \div 2) + 1 THEN num ELSE 0]
      F1 == PutFatSector(F, 1, s, b2)
  IN IF io \in {1, 2} THEN [ret |-> 1, fat |-> F, data |-> buf]
     ELSE IF nf > 1
     THEN IF io = 3 THEN [ret |-> 1, fat |-> F1, data |-> FatBlock(b2)]
          ELSE [ret |-> 0, fat |-> PutFatSector(F1, 2, s, b2),
                data |-> FatBlock(b2)]
     ELSE [ret |-> 0, fat |-> F1, data |-> FatBlock(b2)]

(***************************************************************************)
(* update_fat: replace the word at byte index `index` of the FAT by num,   *)
(* in the first and (if number_of_fats > 1) the second FAT.  Callers pass  *)
(* an even index below fat_size.                                           *)
(***************************************************************************)
update_fat(F, nf, fsz, buf, index, num, io) ==
  LET s  == (index - (index % SectorSize)) \div SectorSize
      b  == FatSector(F, 1, s)
      b2 == [b EXCEPT ![((index % SectorSize) \div 2) + 1] = num]
      F1 == PutFatSector(F, 1, s, b2)
  IN IF io = 1 THEN [ret |-> 1, fat |-> F, data |-> buf]
     ELSE IF io = 2 THEN [ret |-> 1, fat |-> F, data |-> FatBlock(b2)]
     ELSE IF nf > 1
     THEN IF io = 3 THEN [ret |-> 1, fat |-> F1, data |-> FatBlock(b2)]
          ELSE [ret |-> 0, fat |-> PutFatSector(F1, 2, s, b2),
                data |-> FatBlock(b2)]
     ELSE [ret |-> 0, fat |-> F1, data |-> FatBlock(b2)]

(***************************************************************************)
(* SpecFat: the allocator under the session layers' call pattern           *)
(*   start:  start_cluster = find_cluster()                                *)
(*   grow:   tmp16 = find_cluster(); update_fat(cluster * 2, tmp16);       *)
(*           cluster = tmp16                                               *)
(***************************************************************************)
(***************************************************************************)
(* zapp: buffers, blocks of the data area, WAVE header                     *)
(***************************************************************************)
\* samples per capture buffer (#define BUFF_SIZE); a buffer of the model
\* holds BUFF_SIZE sample cells and fills one 512-byte block
BUFF_SIZE == 2
\* sample interrupts taken in one behaviour
MaxSamples == 12
\* CTRL button presses in one behaviour
MaxPresses == 1
\* block transfers that fail in one behaviour
MaxIoFail == 1
\* buffers completed while the previous one was undrained, in one behaviour
MaxOverruns == 1
\* fatinfo.nsectsinclust ranges over 1..MaxSectorsPerCluster
MaxSectorsPerCluster == 1
\* highest cluster of the data area of the zapp volume
MaxCluster == 13

\* clusters reserved for the circular buffer (0x0005 * nbytesinclust)
RingClusters == 5
\* sizeof(riff) + sizeof(fmt) + sizeof(dat)
HeaderSize == 44
\* sizeof(riff.info)
CkSize == 8
\* bytes of a directory table entry
DirEntrySize == 32
\* first byte of a deleted directory entry
Deleted == 229
\* max directory entries of the zapp volume (boot sector offset 0x11)
RootEntries == 16

Buffers == {"data_mic_buff", "data_sd_buff"}
ZeroBlock == [kind |-> "zero"]
PcmBlock(s) == [kind |-> "pcm", s |-> s]
HdrBlock(riff, dat, rest) == [kind |-> "hdr", riff |-> riff, dat |-> dat, rest |-> rest]
DirBlock(e) == [kind |-> "dir", e |-> e]

\* data_mic[byte_num] = new_sample: cell n of block b becomes sample v; the
\* cells of a block that held something else are not samples (0)
StoreSample(b, n, v) ==
  IF b.kind = "pcm"
  THEN PcmBlock([b.s EXCEPT ![n + 1] = v])
  ELSE PcmBlock([x \in 1..BUFF_SIZE |-> IF x = n + 1 THEN v ELSE 0])

\* bytes 44..511 of a block, as far as the header path tells them apart
Rest(b) ==
  IF b.kind = "hdr" THEN b.rest ELSE IF b.kind = "zero" THEN "zero" ELSE "stale"

\* wave.c: the 44 header bytes are stored little-endian at data[0..43]
\* (cksize of the RIFF chunk at 4..7, of the data chunk at 40..43), the
\* rest of the buffer is left as it is
write_header(b, riff_cksize, dat_cksize) == HdrBlock(riff_cksize, dat_cksize, Rest(b))

(***************************************************************************)
(* zapp: geometry (parse_boot_sector) with one reserved sector             *)
(***************************************************************************)
\* data[0x11] | (data[0x12] << 8) is the number of slots of the table on the
\* card
dir_table_size == Len(dir) * DirEntrySize
dir_table_offset == SectorSize + (SectorSize * (fat_size \div SectorSize) * number_of_fats)
file_cluster_offset == dir_table_offset + dir_table_size
bytes_per_cluster == SectorSize * sectors_per_cluster
get_cluster_offset(clust) == file_cluster_offset + ((clust - 2) * bytes_per_cluster)
valid_block(block) == block < sectors_per_cluster
circ_offset_begin == file_cluster_offset + (0 * bytes_per_cluster)
circ_offset_end == file_cluster_offset + (RingClusters * bytes_per_cluster)
DataOffsets ==
  {file_cluster_offset + (SectorSize * n) : n \in 0..(((MaxCluster - 1) * sectors_per_cluster) - 1)}

(***************************************************************************)
(* Directory table: get_file_num and update_dir_table                      *)
(***************************************************************************)
EntriesPerSector == SectorSize \div DirEntrySize
\* a slot as far as the code looks at it: byte 0 (first letter of the name),
\* bytes 4..6 (the suffix), bytes 26..27 (cluster), bytes 28..31 (size)
FreeEntry ==
  [b0 |-> 0, d4 |-> 0, d5 |-> 0, d6 |-> 0,
   b26 |-> 0, b27 |-> 0, b28 |-> 0, b29 |-> 0, b30 |-> 0, b31 |-> 0]
\* (uint8_t)(v >> (8 * k))
ByteOf(v, k) == (v \div (256 ^ k)) % 256
\* the little-endian numbers a FAT16 reader takes from a slot
EntryCluster(e) == e.b26 + (256 * e.b27)
EntrySize(e) == e.b28 + (256 * e.b29) + (65536 * e.b30) + (16777216 * e.b31)
\* dte[] = "DATA000 CSV" with suffix, starting cluster and size filled in
dte(cluster, file_size, file_num) ==
  [b0 |-> 68,
   d4 |-> ((file_num \div 100) % 10) + 48,
   d5 |-> ((file_num \div 10) % 10) + 48,
   d6 |-> (file_num % 10) + 48,
   b26 |-> ByteOf(cluster, 0), b27 |-> ByteOf(cluster, 1),
   b28 |-> ByteOf(file_size, 0), b29 |-> ByteOf(file_size, 1),
   b30 |-> ByteOf(file_size, 2), b31 |-> ByteOf(file_size, 3)]
DirSector(D, s) == [x \in 1..EntriesPerSector |-> D[(s * EntriesPerSector) + x]]

\* tmp16 = data[j+k] - 0x30 in uint16_t
Digit(d) == (d + U16 - 48) % U16

\* the do-while of get_file_num at entry n (i = 32 n) with the sector s in
\* the buffer; io = ordinal of the sector read that fails
RECURSIVE gfn_loop(_, _, _, _, _, _)
gfn_loop(D, n, s, max, buf, io) ==
  LET boundary == (n % EntriesPerSector) = 0
      s1 == IF boundary THEN n \div EntriesPerSector ELSE s
      b1 == IF boundary THEN DirBlock(DirSector(D, s1)) ELSE buf
      e  == D[n + 1]
      ok == e.b0 # Deleted /\ Digit(e.d4) <= 9 /\ Digit(e.d5) <= 9 /\ Digit(e.d6) <= 9
      x  == ((Digit(e.d4) * 100) + (Digit(e.d5) * 10) + Digit(e.d6)) % U16
      m1 == IF ok /\ x > max THEN x ELSE max
      n1 == n + 1
      \* data[j] of the while condition is in the sector still in the buffer
      look == b1.e[(n1 % EntriesPerSector) + 1].b0
  IN IF boundary /\ io = s1 + 1 THEN [ret |-> 1, data |-> buf]
     ELSE IF (n1 * DirEntrySize) < dir_table_size /\ look # 0
          THEN gfn_loop(D, n1, s1, m1, b1, io)
          ELSE [ret |-> (m1 + 1) % U16, data |-> b1]
get_file_num(D, buf, io) == gfn_loop(D, 0, 0, 0, buf, io)

\* first entry at or after n whose first byte is 0x00 or 0xE5, else the
\* number of entries
RECURSIVE FirstFreeEntry(_, _)
FirstFreeEntry(D, n) ==
  IF n >= Len(D) THEN Len(D)
  ELSE IF D[n + 1].b0 = 0 \/ D[n + 1].b0 = Deleted THEN n
  ELSE FirstFreeEntry(D, n + 1)

\* filename prefix by type of data: "ACCL", "GYRO"; any other type is invalid
ACCEL_DATA == 3
GYRO_DATA == 4
Prefix(type) == IF type = ACCEL_DATA THEN 65 ELSE 71

\* the body of update_dir_table with the entry e to store; valid = FALSE is
\* the return on an invalid type.  io = k in 1..reads: the k-th sector read
\* fails; io = reads + 1: the final write_block fails (its result is not
\* looked at)
dir_table_store(D, buf, e, valid, io) ==
  LET n     == FirstFreeEntry(D, 0)
      i     == n * DirEntrySize
      last  == IF i < dir_table_size THEN n ELSE n - 1
      reads == (last \div EntriesPerSector) + 1
      j     == reads - 1
      s     == last \div EntriesPerSector
      img   == DirSector(D, s)
  IN IF io >= 1 /\ io <= reads
     THEN [ret |-> 1, dir |-> D,
           data |-> IF io = 1 THEN buf ELSE DirBlock(DirSector(D, io - 2))]
     ELSE IF (i + (SectorSize * j)) >= dir_table_size
     THEN [ret |-> 1, dir |-> D, data |-> DirBlock(img)]
     ELSE IF ~valid
     THEN [ret |-> 1, dir |-> D, data |-> DirBlock(img)]
     ELSE IF i >= SectorSize
     \* data[i] lies beyond the 512-byte buffer: the sector image that is
     \* written back is the one that was read
     THEN [ret |-> 0, dir |-> D, data |-> DirBlock(img)]
     ELSE LET img2 == [img EXCEPT ![n + 1] = e]
          IN [ret |-> 0,
              dir |-> IF io = reads + 1 THEN D ELSE [D EXCEPT ![n + 1] = e],
              data |-> DirBlock(img2)]

\* update_dir_table(data, cluster, file_size, file_num, type)
update_dir_table(D, buf, cluster, file_size, file_num, type, io) ==
  dir_table_store(D, buf,
                  [dte(cluster, file_size, file_num) EXCEPT !.b0 = Prefix(type)],
                  type \in {ACCEL_DATA, GYRO_DATA}, io)

\* update_dir_table(data, &fatinfo, cluster, file_size, file_num) of the
\* audio variant: no type, the name stays as dte[] has it
update_dir_table_wav(D, buf, cluster, file_size, file_num, io) ==
  dir_table_store(D, buf, dte(cluster, file_size, file_num), TRUE, io)

(***************************************************************************)
(* zapp: the state before main has run                                     *)
(***************************************************************************)
NoWrite == [ptr |-> "NULL", snap |-> NoBlock]
SlInit ==
  [block_offset |-> 0, circ_bookmark |-> 0, circ_track |-> 0,
   start_cluster |-> 0, cluster_num |-> 0, block_num |-> 0, total_bytes |-> 0,
   riff_cksize |-> 0, dat_cksize |-> 0, file_num |-> 0]

\* the streams of the sensor variant and the locals of its start_logging
StreamNames == {"accel", "gyro"}
LgInit(build, vol, len) ==
  [streams |-> build, vol |-> vol, len |-> len,
   start_cluster |-> [s \in StreamNames |-> 0],
   cluster_count |-> [s \in StreamNames |-> 0],
   block_count |-> [s \in StreamNames |-> 0],
   byte_count |-> [s \in StreamNames |-> 0],
   total_bytes |-> [s \in StreamNames |-> 0],
   data_len |-> [s \in StreamNames |-> 0],
   file_num |-> 0, lines |-> 0, writes |-> <<>>]
LgOff == LgInit({}, [nf |-> 1, free |-> {}], 0)

\* the program before main has run, whatever card is in the slot
ProgOff ==
  /\ data_mic = "NULL"
  /\ data_sd = "NULL"
  /\ buffers = [b \in Buffers |-> ZeroBlock]
  /\ byte_num = 0
  /\ dump_data = 0
  /\ logging = 0
  /\ stop_flag = 0
  /\ hold_flag = 0
  /\ gie = FALSE
  /\ timer = FALSE
  /\ pc = "off"
  /\ isr = "idle"
  /\ swap = "NULL"
  /\ rc = 0
  /\ sl = SlInit
  /\ wr = NoWrite
  /\ nsamp = 0
  /\ filled = <<>>
  /\ ringlog = <<>>
  /\ copied = <<>>
  /\ overruns = 0
  /\ patch = "none"
  /\ presses = 0
  /\ round = 0
  /\ iofail = 0

ZappOff ==
  /\ sectors_per_cluster = 1
  /\ dir = <<>>
  /\ disk = <<>>
  /\ ProgOff

\* the sets of clusters that may be free on the card at mount (clusters
\* beyond the FAT are dropped): none, the first, a gap, the end of the first
\* sector and the start of the second
FreeSets == {{}, {2}, {3, 5}, {2, 3, 5}, {255, 256}, {257}, {5, 257}}

\* a formatted FAT: entries 0 and 1 reserved (F8 FF FF FF), clusters in
\* free are 0x0000, every other cluster holds a one-cluster file
FatImage(fsz, free) ==
  [e \in 0..((fsz \div 2) - 1) |->
     IF e = 0 THEN 65528 ELSE IF e \in free THEN 0 ELSE EOC]

IoOutcomes == 0..4

InitFat ==
  /\ number_of_fats \in 1..MaxFats
  /\ \E spf \in 1..MaxSectorsPerFat : fat_size = SectorSize * spf
  /\ \E free \in FreeSets :
       /\ fat = [k \in 1..number_of_fats |-> FatImage(fat_size, free)]
  /\ data = NoBlock
  /\ files = <<>>
  /\ pending = <<>>
  /\ returned = <<>>
  /\ call = [op |-> "none", ret |-> 0, entry |-> 0, num |-> 0]
  /\ ZappOff
  /\ lg = LgOff
  /\ DriverOff

\* test/main.c:393,517  zapp/main.c:341
StartFile ==
  /\ Len(files) < MaxFiles
  /\ pending = <<>>
  /\ \E io \in IoOutcomes :
       LET r == find_cluster(fat, number_of_fats, fat_size, data, io)
       IN /\ fat' = r.fat
          /\ data' = r.data
          /\ call' = [op |-> "find_cluster", ret |-> r.ret, entry |-> r.ret,
                      num |-> EOC]
          /\ IF r.ret = 0
             THEN UNCHANGED <<files, returned>>
             ELSE /\ files' = Append(files, [start |-> r.ret, cur |-> r.ret])
                  /\ returned' = Append(returned, r.ret)
  /\ UNCHANGED <<number_of_fats, fat_size, pending, zappVars, lg, driverVars>>

\* test/main.c:981,1001  zapp/main.c:466
FindNext ==
  /\ pending = <<>>
  /\ \E f \in 1..Len(files), io \in IoOutcomes :
       LET r == find_cluster(fat, number_of_fats, fat_size, data, io)
       IN /\ fat' = r.fat
          /\ data' = r.data
          /\ call' = [op |-> "find_cluster", ret |-> r.ret, entry |-> r.ret,
                      num |-> EOC]
          /\ IF r.ret = 0
             THEN UNCHANGED <<pending, returned>>
             ELSE /\ pending' = <<[f |-> f, tmp16 |-> r.ret]>>
                  /\ returned' = Append(returned, r.ret)
  /\ UNCHANGED <<number_of_fats, fat_size, files, zappVars, lg, driverVars>>

\* test/main.c:984-987,1004-1007  zapp/main.c:469-472
Link ==
  /\ pending # <<>>
  /\ \E io \in 0..3 :
       LET p == pending[1]
           index == (files[p.f].cur * 2) % U16
           r == update_fat(fat, number_of_fats, fat_size, data, index,
                           p.tmp16, io)
       IN /\ fat' = r.fat
          /\ data' = r.data
          /\ call' = [op |-> "update_fat", ret |-> r.ret,
                      entry |-> index \div 2, num |-> p.tmp16]
          /\ files' = IF r.ret = 0
                      THEN [files EXCEPT ![p.f].cur = p.tmp16]
                      ELSE files
  /\ pending' = <<>>
  /\ UNCHANGED <<number_of_fats, fat_size, returned, zappVars, lg, driverVars>>

NextFat == StartFile \/ FindNext \/ Link

SpecFat == InitFat /\ [][NextFat]_vars

(***************************************************************************)
(* SpecZapp: zapp/main.c                                                   *)
(***************************************************************************)
\* the ordinals of the block transfer that may fail in a call making up to
\* n transfers (0 = none fails)
Fails(n) == IF iofail < MaxIoFail THEN 0..n ELSE {0}
Count(io) == IF io = 0 THEN iofail ELSE iofail + 1
SetBuffer(p, b) == [buffers EXCEPT ![p] = b]
Main == isr = "idle"

\* the five update_fat calls that chain clusters 2..6 for the ring
RingMarks ==
  <<[index |-> 4, num |-> 3], [index |-> 6, num |-> 4], [index |-> 8, num |-> 5],
    [index |-> 10, num |-> 6], [index |-> 12, num |-> EOC]>>
RECURSIVE mark_ring(_, _, _, _, _)
mark_ring(F, buf, k, fk, io) ==
  IF k > Len(RingMarks) THEN [ret |-> 0, fat |-> F, data |-> buf]
  ELSE LET r == update_fat(F, number_of_fats, fat_size, buf,
                           RingMarks[k].index, RingMarks[k].num,
                           IF k = fk THEN io ELSE 0)
       IN IF r.ret # 0 THEN r ELSE mark_ring(r.fat, r.data, k + 1, fk, io)

\* the volume at mount: two FATs, every data cluster free
ZappVolumes == {[nf |-> 2, free |-> 2..MaxCluster]}
\* the FAT entries of the clusters of the volume; the entries of a FAT
\* sector beyond them read 0xFFFF and are never written with another value
ZappImage(free) ==
  [e \in 0..MaxCluster |-> IF e = 0 THEN 65528 ELSE IF e \in free THEN 0 ELSE EOC]
\* what a FAT call leaves in the buffer, as far as start_logging can tell
Scratch(b) == IF b.kind = "fat" THEN [kind |-> "fat"] ELSE b

InitZapp ==
  /\ fat_size = SectorSize
  /\ \E v \in ZappVolumes :
       /\ number_of_fats = v.nf
       /\ fat = [k \in 1..v.nf |-> ZappImage(v.free)]
  /\ data = NoBlock
  /\ files = <<>>
  /\ pending = <<>>
  /\ returned = <<>>
  /\ call = [op |-> "none", ret |-> 0, entry |-> 0, num |-> 0]
  /\ sectors_per_cluster \in 1..MaxSectorsPerCluster
  /\ dir = [n \in 1..RootEntries |-> FreeEntry]
  /\ disk = [o \in DataOffsets |-> NoBlock]
  /\ data_mic = "NULL"
  /\ data_sd = "NULL"
  /\ buffers = [b \in Buffers |-> ZeroBlock]
  /\ byte_num = 0
  /\ dump_data = 0
  /\ logging = 0
  /\ stop_flag = 0
  /\ hold_flag = 0
  /\ gie = FALSE
  /\ timer = FALSE
  /\ pc = "off"
  /\ isr = "idle"
  /\ swap = "NULL"
  /\ rc = 0
  /\ sl = SlInit
  /\ wr = NoWrite
  /\ nsamp = 0
  /\ filled = <<>>
  /\ ringlog = <<>>
  /\ copied = <<>>
  /\ overruns = 0
  /\ patch = "none"
  /\ presses = 0
  /\ round = 0
  /\ iofail = 0
  /\ lg = LgOff
  /\ DriverOff

\* main, lines 82-178: off state, wake up, card and pointer initialisation
main_start ==
  /\ Main /\ pc = "off"
  /\ logging' = 0
  /\ gie' = TRUE
  /\ data_mic' = "data_mic_buff"
  /\ data_sd' = "data_sd_buff"
  /\ pc' = "sl_entry"
  /\ filled' = <<>>
  /\ ringlog' = <<>>
  /\ UNCHANGED <<fatVars, clientVars, lg, driverVars, cardVars, buffers, byte_num, dump_data,
                 stop_flag, hold_flag, timer, isr, swap, rc, sl, wr, nsamp,
                 copied, overruns, patch, presses, round, iofail>>

\* main, lines 185-196: while (log_error = start_logging()); goto start
main_loop ==
  /\ Main /\ pc = "ret"
  /\ pc' = IF rc # 0 THEN "sl_entry" ELSE "off"
  /\ UNCHANGED <<fatVars, clientVars, lg, driverVars, cardVars, progVars, gie, timer, isr,
                 swap, rc, sl, wr, histVars>>

\* start_logging, lines 244-248
sl_entry ==
  /\ Main /\ pc = "sl_entry"
  /\ logging' = 1
  /\ hold_flag' = 0
  /\ byte_num' = 0
  /\ dump_data' = 0
  /\ pc' = "sl_mark"
  /\ UNCHANGED <<fatVars, clientVars, lg, driverVars, cardVars, data_mic, data_sd, buffers,
                 stop_flag, gie, timer, isr, swap, rc, sl, wr, histVars>>

\* start_logging, lines 259-263
sl_mark ==
  /\ Main /\ pc = "sl_mark"
  /\ \E fk \in 1..Len(RingMarks), io \in Fails(3) :
       LET r == mark_ring(fat, buffers[data_sd], 1, fk, io)
       IN /\ fat' = r.fat
          /\ buffers' = SetBuffer(data_sd, Scratch(r.data))
          /\ iofail' = Count(io)
          /\ IF r.ret # 0
             THEN rc' = 1 /\ pc' = "ret"
             ELSE rc' = rc /\ pc' = "round"
  /\ UNCHANGED <<number_of_fats, fat_size, clientVars, lg, driverVars, cardVars, data_mic,
                 data_sd, byte_num, dump_data, logging, stop_flag, hold_flag,
                 gie, timer, isr, swap, sl, wr, nsamp, filled, ringlog,
                 copied, overruns, patch, presses, round>>

\* start_logging, lines 280-290
sl_round ==
  /\ Main /\ pc = "round"
  /\ stop_flag' = 0
  /\ sl' = [sl EXCEPT !.block_offset = circ_offset_begin]
  /\ gie' = TRUE
  /\ timer' = TRUE
  /\ pc' = "ring_test"
  /\ round' = round + 1
  /\ UNCHANGED <<fatVars, clientVars, lg, driverVars, cardVars, data_mic, data_sd, buffers,
                 byte_num, dump_data, logging, hold_flag, isr, swap, rc, wr,
                 nsamp, filled, ringlog, copied, overruns, patch, presses,
                 iofail>>

\* start_logging, line 293: while (stop_flag == 0)
ring_test ==
  /\ Main /\ pc = "ring_test"
  /\ pc' = IF stop_flag = 0 THEN "ring_wait" ELSE "ring_stop"
  /\ UNCHANGED <<fatVars, clientVars, lg, driverVars, cardVars, progVars, gie, timer, isr,
                 swap, rc, sl, wr, histVars>>

\* start_logging, lines 302-306: while (!dump_data); dump_data = 0
ring_wait ==
  /\ Main /\ pc = "ring_wait"
  /\ dump_data # 0
  /\ dump_data' = 0
  /\ pc' = "ring_write"
  /\ UNCHANGED <<fatVars, clientVars, lg, driverVars, cardVars, data_mic, data_sd, buffers,
                 byte_num, logging, stop_flag, hold_flag, gie, timer, isr,
                 swap, rc, sl, wr, histVars>>

\* start_logging, line 309: the call write_block(data_sd, block_offset, 512)
\* takes the value data_sd has now
ring_write ==
  /\ Main /\ pc = "ring_write"
  /\ wr' = [ptr |-> data_sd, snap |-> buffers[data_sd]]
  /\ pc' = "ring_writing"
  /\ UNCHANGED <<fatVars, clientVars, lg, driverVars, cardVars, progVars, gie, timer, isr,
                 swap, rc, sl, histVars>>

\* a ring loop that moves block_offset on without the wrap at the end of the
\* ring
ring_written_nowrap ==
  /\ Main /\ pc = "ring_writing"
  /\ wr' = NoWrite
  /\ \E io \in Fails(1) :
       /\ iofail' = Count(io)
       /\ IF io = 1
          THEN /\ rc' = 2 /\ pc' = "ret"
               /\ UNCHANGED <<disk, ringlog, sl>>
          ELSE /\ \E blk \in {wr.snap, buffers[wr.ptr]} :
                    /\ disk' = [disk EXCEPT ![sl.block_offset] = blk]
                    /\ ringlog' = Append(ringlog,
                                    [round |-> round, off |-> sl.block_offset,
                                     blk |-> blk])
               /\ sl' = [sl EXCEPT !.block_offset = sl.block_offset + SectorSize]
               /\ rc' = rc /\ pc' = "ring_test"
  /\ UNCHANGED <<fatVars, clientVars, lg, driverVars, sectors_per_cluster, dir, progVars, gie,
                 timer, isr, swap, nsamp, filled, copied, overruns, patch,
                 presses, round>>

\* start_logging, lines 309-324: write_block returns; on success the slot
\* holds what was sent (bytes sent before or after the interrupt handler
\* stored into the same buffer) and block_offset moves to the next slot
ring_written ==
  /\ Main /\ pc = "ring_writing"
  /\ wr' = NoWrite
  /\ \E io \in Fails(1) :
       /\ iofail' = Count(io)
       /\ IF io = 1
          THEN /\ rc' = 2 /\ pc' = "ret"
               /\ UNCHANGED <<disk, ringlog, sl>>
          ELSE /\ \E blk \in {wr.snap, buffers[wr.ptr]} :
                    /\ disk' = [disk EXCEPT ![sl.block_offset] = blk]
                    /\ ringlog' = Append(ringlog,
                                    [round |-> round, off |-> sl.block_offset,
                                     blk |-> blk])
               /\ sl' = [sl EXCEPT !.block_offset =
                           IF sl.block_offset + SectorSize = circ_offset_end
                           THEN circ_offset_begin
                           ELSE sl.block_offset + SectorSize]
               /\ rc' = rc /\ pc' = "ring_test"
  /\ UNCHANGED <<fatVars, clientVars, lg, driverVars, sectors_per_cluster, dir, progVars, gie,
                 timer, isr, swap, nsamp, filled, copied, overruns, patch,
                 presses, round>>

\* start_logging, lines 327-334 and 504-506
ring_stop ==
  /\ Main /\ pc = "ring_stop"
  /\ gie' = FALSE
  /\ timer' = FALSE
  /\ IF hold_flag # 0
     THEN logging' = 0 /\ rc' = 0 /\ pc' = "ret"
     ELSE logging' = logging /\ rc' = rc /\ pc' = "ex_start"
  /\ UNCHANGED <<fatVars, clientVars, lg, driverVars, cardVars, data_mic, data_sd, buffers,
                 byte_num, dump_data, stop_flag, hold_flag, isr, swap, sl, wr,
                 histVars>>

Ret2 == rc' = 2 /\ pc' = "ret"

\* start_logging, lines 337-413: bookmark, first cluster, header block
ex_start ==
  /\ Main /\ pc = "ex_start"
  /\ \E io \in Fails(4) :
       LET fc  == find_cluster(fat, number_of_fats, fat_size, buffers[data_sd],
                               IF io <= 3 THEN io ELSE 0)
           bm  == sl.block_offset
           hdr == write_header(ZeroBlock, HeaderSize - CkSize, HeaderSize - HeaderSize)
           off == get_cluster_offset(fc.ret) + (0 * SectorSize)
       IN /\ iofail' = Count(io)
          /\ fat' = fc.fat
          /\ copied' = <<>>
          /\ patch' = "none"
          /\ IF fc.ret = 0
             THEN /\ Ret2
                  /\ buffers' = SetBuffer(data_sd, Scratch(fc.data))
                  /\ sl' = [sl EXCEPT !.circ_bookmark = bm, !.start_cluster = 0]
                  /\ disk' = disk
             ELSE /\ buffers' = SetBuffer(data_sd, hdr)
                  /\ sl' = [sl EXCEPT
                       !.circ_bookmark = IF bm - SectorSize < circ_offset_begin
                                         THEN circ_offset_end ELSE bm - SectorSize,
                       !.circ_track = IF io = 4 THEN @ ELSE bm,
                       !.start_cluster = fc.ret,
                       !.cluster_num = fc.ret,
                       !.block_num = IF io = 4 THEN 0 ELSE 1,
                       !.total_bytes = SectorSize,
                       !.riff_cksize = HeaderSize - CkSize,
                       !.dat_cksize = 0,
                       !.block_offset = off]
                  /\ IF io = 4
                     THEN Ret2 /\ disk' = disk
                     ELSE /\ disk' = [disk EXCEPT ![off] = hdr]
                          /\ rc' = rc /\ pc' = "ex_outer"
  /\ UNCHANGED <<number_of_fats, fat_size, clientVars, lg, driverVars, sectors_per_cluster,
                 dir, data_mic, data_sd, byte_num, dump_data, logging,
                 stop_flag, hold_flag, gie, timer, isr, swap, wr, nsamp,
                 filled, ringlog, overruns, presses, round>>

\* start_logging, line 419
ex_outer ==
  /\ Main /\ pc = "ex_outer"
  /\ pc' = IF sl.circ_track # sl.circ_bookmark /\ sl.cluster_num > 0
           THEN "ex_inner" ELSE "ex_patch"
  /\ UNCHANGED <<fatVars, clientVars, lg, driverVars, cardVars, progVars, gie, timer, isr,
                 swap, rc, sl, wr, histVars>>

\* start_logging, lines 425-462: one ring slot is read and written to the file
ex_copy ==
  /\ Main /\ pc = "ex_inner"
  /\ sl.circ_track # sl.circ_bookmark /\ valid_block(sl.block_num)
  /\ \E io \in Fails(2) :
       LET blk == IF io = 1 THEN buffers[data_sd] ELSE disk[sl.circ_track]
           off == get_cluster_offset(sl.cluster_num) + (sl.block_num * SectorSize)
       IN /\ iofail' = Count(io)
          /\ buffers' = SetBuffer(data_sd, blk)
          /\ IF io = 2
             THEN /\ Ret2
                  /\ sl' = [sl EXCEPT !.block_offset = off]
                  /\ UNCHANGED <<disk, copied>>
             ELSE /\ disk' = [disk EXCEPT ![off] = blk]
                  /\ copied' = Append(copied, [off |-> sl.circ_track, blk |-> blk])
                  /\ sl' = [sl EXCEPT
                       !.block_offset = off,
                       !.block_num = (@ + 1) % 256,
                       !.total_bytes = @ + SectorSize,
                       !.circ_track = IF @ + SectorSize = circ_offset_end
                                      THEN circ_offset_begin ELSE @ + SectorSize]
                  /\ UNCHANGED <<rc, pc>>
  /\ UNCHANGED <<fatVars, clientVars, lg, driverVars, sectors_per_cluster, dir, data_mic,
                 data_sd, byte_num, dump_data, logging, stop_flag, hold_flag,
                 gie, timer, isr, swap, wr, nsamp, filled, ringlog, overruns,
                 patch, presses, round>>

\* ex_grow with `return 2` where line 466 has `break`
ex_grow_return ==
  /\ Main /\ pc = "ex_inner"
  /\ ~(sl.circ_track # sl.circ_bookmark /\ valid_block(sl.block_num))
  /\ \E io \in Fails(6) :
       LET fc == find_cluster(fat, number_of_fats, fat_size, buffers[data_sd],
                              IF io <= 3 THEN io ELSE 0)
           uf == update_fat(fc.fat, number_of_fats, fat_size, fc.data,
                            (sl.cluster_num * 2) % U16, fc.ret,
                            IF io > 3 THEN io - 3 ELSE 0)
       IN /\ iofail' = Count(io)
          /\ IF fc.ret = 0
             THEN /\ fat' = fc.fat
                  /\ buffers' = SetBuffer(data_sd, Scratch(fc.data))
                  /\ Ret2 /\ sl' = sl
             ELSE /\ fat' = uf.fat
                  /\ buffers' = SetBuffer(data_sd, Scratch(uf.data))
                  /\ IF uf.ret # 0
                     THEN Ret2 /\ sl' = sl
                     ELSE /\ sl' = [sl EXCEPT !.cluster_num = fc.ret, !.block_num = 0]
                          /\ rc' = rc /\ pc' = "ex_outer"
  /\ UNCHANGED <<number_of_fats, fat_size, clientVars, lg, driverVars, cardVars, data_mic,
                 data_sd, byte_num, dump_data, logging, stop_flag, hold_flag,
                 gie, timer, isr, swap, wr, nsamp, filled, ringlog, copied,
                 overruns, patch, presses, round>>

\* start_logging, lines 466-474: the inner loop is over; the next free
\* cluster is claimed and linked before the outer condition is looked at
ex_grow ==
  /\ Main /\ pc = "ex_inner"
  /\ ~(sl.circ_track # sl.circ_bookmark /\ valid_block(sl.block_num))
  /\ \E io \in Fails(6) :
       LET fc == find_cluster(fat, number_of_fats, fat_size, buffers[data_sd],
                              IF io <= 3 THEN io ELSE 0)
           uf == update_fat(fc.fat, number_of_fats, fat_size, fc.data,
                            (sl.cluster_num * 2) % U16, fc.ret,
                            IF io > 3 THEN io - 3 ELSE 0)
       IN /\ iofail' = Count(io)
          /\ IF fc.ret = 0
             THEN /\ fat' = fc.fat
                  /\ buffers' = SetBuffer(data_sd, Scratch(fc.data))
                  /\ pc' = "ex_patch"
                  /\ UNCHANGED <<rc, sl>>
             ELSE /\ fat' = uf.fat
                  /\ buffers' = SetBuffer(data_sd, Scratch(uf.data))
                  /\ IF uf.ret # 0
                     THEN Ret2 /\ sl' = sl
                     ELSE /\ sl' = [sl EXCEPT !.cluster_num = fc.ret, !.block_num = 0]
                          /\ rc' = rc /\ pc' = "ex_outer"
  /\ UNCHANGED <<number_of_fats, fat_size, clientVars, lg, driverVars, cardVars, data_mic,
                 data_sd, byte_num, dump_data, logging, stop_flag, hold_flag,
                 gie, timer, isr, swap, wr, nsamp, filled, ringlog, copied,
                 overruns, patch, presses, round>>

\* start_logging, lines 477-489: the results of read_block and write_block
\* are not looked at
ex_patch ==
  /\ Main /\ pc = "ex_patch"
  /\ \E io \in Fails(2) :
       LET riff == sl.total_bytes - CkSize
           dat  == sl.total_bytes - HeaderSize
           off  == get_cluster_offset(sl.start_cluster)
           blk  == write_header(IF io = 1 THEN buffers[data_sd] ELSE disk[off],
                                riff, dat)
       IN /\ iofail' = Count(io)
          /\ sl' = [sl EXCEPT !.riff_cksize = riff, !.dat_cksize = dat,
                              !.block_offset = off]
          /\ buffers' = SetBuffer(data_sd, blk)
          /\ disk' = IF io = 2 THEN disk ELSE [disk EXCEPT ![off] = blk]
          /\ patch' = IF io = 1 THEN "read_failed"
                      ELSE IF io = 2 THEN "write_failed" ELSE "ok"
  /\ pc' = "ex_dir"
  /\ UNCHANGED <<fatVars, clientVars, lg, driverVars, sectors_per_cluster, dir, data_mic,
                 data_sd, byte_num, dump_data, logging, stop_flag, hold_flag,
                 gie, timer, isr, swap, rc, wr, nsamp, filled, ringlog,
                 copied, overruns, presses, round>>

\* start_logging, lines 495-502
ex_dir ==
  /\ Main /\ pc = "ex_dir"
  /\ \E io \in Fails(3) :
       LET gf == get_file_num(dir, buffers[data_sd], IF io = 1 THEN 1 ELSE 0)
           ud == update_dir_table_wav(dir, gf.data, sl.start_cluster,
                                  sl.total_bytes, gf.ret,
                                  IF io > 1 THEN io - 1 ELSE 0)
       IN /\ iofail' = Count(io)
          /\ sl' = [sl EXCEPT !.file_num = gf.ret]
          /\ dir' = ud.dir
          /\ buffers' = SetBuffer(data_sd, ud.data)
          /\ IF ud.ret # 0 THEN Ret2 ELSE rc' = rc /\ pc' = "round"
  /\ UNCHANGED <<fatVars, clientVars, lg, driverVars, sectors_per_cluster, disk, data_mic,
                 data_sd, byte_num, dump_data, logging, stop_flag, hold_flag,
                 gie, timer, isr, swap, wr, nsamp, filled, ringlog, copied,
                 overruns, patch, presses, round>>

\* the previously completed buffer has not been drained: dump_data is still
\* set or its write_block has not returned
Undrained == dump_data # 0 \/ pc \in {"ring_write", "ring_writing"}

\* CCR0_ISR, lines 641-643 and the test of line 646
CCR0_ISR ==
  /\ gie /\ timer /\ isr = "idle"
  /\ nsamp < MaxSamples
  /\ (byte_num + 1 = BUFF_SIZE /\ Undrained) => overruns < MaxOverruns
  /\ nsamp' = nsamp + 1
  /\ buffers' = SetBuffer(data_mic, StoreSample(buffers[data_mic], byte_num, nsamp + 1))
  /\ byte_num' = byte_num + 1
  /\ isr' = IF byte_num + 1 = BUFF_SIZE THEN "swap" ELSE "idle"
  /\ UNCHANGED <<fatVars, clientVars, lg, driverVars, cardVars, data_mic, data_sd, dump_data,
                 logging, stop_flag, hold_flag, gie, timer, pc, swap, rc, sl,
                 wr, filled, ringlog, copied, overruns, patch, presses, round, iofail>>

\* CCR0_ISR, lines 647-648: swap = data_sd; data_sd = data_mic
CCR0_ISR_swap ==
  /\ isr = "swap"
  /\ swap' = data_sd
  /\ data_sd' = data_mic
  /\ isr' = "swapped"
  /\ UNCHANGED <<fatVars, clientVars, lg, driverVars, cardVars, data_mic, buffers, byte_num,
                 dump_data, logging, stop_flag, hold_flag, gie, timer, pc, rc,
                 sl, wr, histVars>>

\* the handler without the assignment data_mic = swap
CCR0_ISR_done_half ==
  /\ isr = "swapped"
  /\ data_mic' = data_mic
  /\ byte_num' = 0
  /\ dump_data' = 1
  /\ isr' = "idle"
  /\ filled' = Append(filled, buffers[data_sd])
  /\ overruns' = IF Undrained THEN overruns + 1 ELSE overruns
  /\ UNCHANGED <<fatVars, clientVars, lg, driverVars, cardVars, data_sd, buffers, logging,
                 stop_flag, hold_flag, gie, timer, pc, swap, rc, sl, wr,
                 nsamp, ringlog, copied, patch, presses, round, iofail>>

\* a handler that writes the full buffer to the card itself
CCR0_ISR_done_write ==
  /\ isr = "swapped"
  /\ data_mic' = swap
  /\ byte_num' = 0
  /\ dump_data' = 1
  /\ isr' = "idle"
  /\ filled' = Append(filled, buffers[data_sd])
  /\ overruns' = IF Undrained THEN overruns + 1 ELSE overruns
  /\ disk' = [disk EXCEPT ![sl.block_offset] = buffers[data_sd]]
  /\ UNCHANGED <<fatVars, clientVars, lg, driverVars, sectors_per_cluster, dir,
                 data_sd, buffers, logging, stop_flag, hold_flag, gie, timer,
                 pc, swap, rc, sl, wr, nsamp, ringlog, copied, patch, presses,
                 round, iofail>>

\* CCR0_ISR, lines 649-651: data_mic = swap; byte_num = 0; dump_data = 1
CCR0_ISR_done ==
  /\ isr = "swapped"
  /\ data_mic' = swap
  /\ byte_num' = 0
  /\ dump_data' = 1
  /\ isr' = "idle"
  /\ filled' = Append(filled, buffers[data_sd])
  /\ overruns' = IF Undrained THEN overruns + 1 ELSE overruns
  /\ UNCHANGED <<fatVars, clientVars, lg, driverVars, cardVars, data_sd, buffers, logging,
                 stop_flag, hold_flag, gie, timer, pc, swap, rc, sl, wr,
                 nsamp, ringlog, copied, patch, presses, round, iofail>>

\* PORT1_ISR, lines 669-711, while logging: a tap sets stop_flag, a hold of
\* two seconds sets hold_flag as well
PORT1_ISR ==
  /\ gie /\ isr = "idle" /\ logging # 0
  /\ presses < MaxPresses
  /\ presses' = presses + 1
  /\ \E hold \in BOOLEAN : hold_flag' = IF hold THEN 1 ELSE hold_flag
  /\ stop_flag' = 1
  /\ UNCHANGED <<fatVars, clientVars, lg, driverVars, cardVars, data_mic, data_sd, buffers,
                 byte_num, dump_data, logging, gie, timer, pc, isr, swap, rc,
                 sl, wr, nsamp, filled, ringlog, copied, overruns, patch,
                 round, iofail>>

NextZapp ==
  \/ main_start \/ main_loop \/ sl_entry \/ sl_mark \/ sl_round
  \/ ring_test \/ ring_wait \/ ring_write \/ ring_written \/ ring_stop
  \/ ex_start \/ ex_outer \/ ex_copy \/ ex_grow \/ ex_patch \/ ex_dir
  \/ CCR0_ISR \/ CCR0_ISR_swap \/ CCR0_ISR_done \/ PORT1_ISR

SpecZapp == InitZapp /\ [][NextZapp]_vars

(***************************************************************************)
(* Properties of the allocator (SpecFat)                                  *)
(***************************************************************************)
\* the clusters of the chain that starts at c in the first FAT (at most n
\* links are followed)
RECURSIVE Chain(_, _, _)
Chain(F, c, n) ==
  IF n = 0 \/ c < 2 \/ c \notin DOMAIN F[1] THEN {}
  ELSE {c} \cup Chain(F, F[1][c], n - 1)

\* C8: a find_cluster call that returns c # 0 returns the lowest-numbered
\* cluster c >= 2 whose entry in the FAT was 0x0000 before the call; after
\* the call the entry of c is 0xFFFF and no other entry of the FAT differs
\* from its value before the call.
C8_FindClusterLowestFree ==
  [][ (call'.op = "find_cluster" /\ call'.ret # 0) =>
        LET c == call'.ret
        IN /\ c >= 2
           /\ fat[1][c] = 0
           /\ \A e \in 2..(c - 1) : fat[1][e] # 0
           /\ fat'[1] = [fat[1] EXCEPT ![c] = EOC] ]_vars

\* find_cluster has skipped used clusters and a whole FAT sector and claimed
\* a cluster of the second sector
C8_Witness ==
  /\ call.op = "find_cluster"
  /\ call.ret >= WordsPerSector
  /\ fat[1][call.ret] = EOC

\* C9: over any sequence of find_cluster calls no cluster id is returned
\* twice, no two files have the same start cluster and no cluster lies in
\* the chains of two files.
C9_NeverReturnedTwice ==
  /\ \A a, b \in 1..Len(returned) : a # b => returned[a] # returned[b]
  /\ \A f, g \in 1..Len(files) :
       f # g => /\ files[f].start # files[g].start
                /\ Chain(fat, files[f].start, 4) \cap
                   Chain(fat, files[g].start, 4) = {}

\* two files are open, one of them grown to a second cluster
C9_Witness ==
  /\ Len(files) = 2
  /\ Len(returned) >= 3
  /\ \E f \in 1..Len(files) :
       /\ files[f].cur # files[f].start
       /\ fat[1][files[f].start] = files[f].cur

\* C10: after a successful find_cluster or update_fat the modified entry has
\* the value written in every one of the number_of_fats FAT copies.
C10_AllFatCopiesMirrored ==
  ( \/ (call.op = "find_cluster" /\ call.ret # 0)
    \/ (call.op = "update_fat" /\ call.ret = 0) )
  => \A k \in 1..number_of_fats : fat[k][call.entry] = call.num

(***************************************************************************)
(* Properties of the capture pipeline, the ring and the extraction        *)
(* (SpecZapp)                                                              *)
(***************************************************************************)
NextSlot(o) ==
  IF o + SectorSize = circ_offset_end THEN circ_offset_begin ELSE o + SectorSize
RingSlots == RingClusters * sectors_per_cluster
ThisRound == SelectSeq(ringlog, LAMBDA e : e.round = round)

\* C1: as long as no buffer was completed while the previous one was
\* undrained and no block transfer failed, the k-th block written by the ring
\* loop is the k-th buffer CCR0_ISR completed, unmodified, and it goes to
\* the slot after the previous one (the first slot at the start of a round)
C1_NoSampleLost ==
  (overruns = 0 /\ iofail = 0) =>
    \A i \in 1..Len(ringlog) :
      /\ i <= Len(filled)
      /\ ringlog[i].blk = filled[i]
      /\ ringlog[i].off =
           IF i > 1 /\ ringlog[i - 1].round = ringlog[i].round
           THEN NextSlot(ringlog[i - 1].off) ELSE circ_offset_begin

\* C2: whenever main context can run (no interrupt handler is active) and
\* the pointers have been initialised, data_mic and data_sd are the two
\* distinct static buffers, in either order
C2_BuffersDistinct ==
  (isr = "idle" /\ (data_mic # "NULL" \/ data_sd # "NULL")) =>
    /\ data_mic \in Buffers
    /\ data_sd \in Buffers
    /\ data_mic # data_sd

C2_Witness ==
  /\ isr = "idle"
  /\ pc = "ring_writing"
  /\ Len(filled) >= 3
  /\ data_mic = "data_sd_buff"
  /\ data_sd = "data_mic_buff"

\* C3: when CCR0_ISR finds the active buffer full while the previous buffer
\* is undrained, it does not exchange the buffer pointers
C3_OverrunExposed ==
  [][ (isr = "swap" /\ Undrained) => data_sd' = data_sd ]_vars

\* C4: after a trigger with at least one full lap written in the round,
\* when the copy loop has run up to the bookmark (no transfer failed) the
\* extraction has copied the N slots written last, each once, oldest first,
\* ending with the slot written just before the trigger
C4_ExtractsWholeRing ==
  (pc = "ex_patch" /\ iofail = 0 /\ Len(ThisRound) >= RingSlots
     /\ sl.circ_track = sl.circ_bookmark) =>
    copied = [i \in 1..RingSlots |->
                LET e == ThisRound[Len(ThisRound) - RingSlots + i]
                IN [off |-> e.off, blk |-> e.blk]]

\* C5: the first block of every file listed in the directory table starts
\* with a header whose RIFF chunk size is S - 8 and whose data chunk size is
\* S - 44, S being the size in the directory entry
C5_HeaderSizes ==
  \A n \in 1..Len(dir) :
    dir[n].b0 # 0 =>
      LET b == disk[get_cluster_offset(EntryCluster(dir[n]))]
      IN /\ b.kind = "hdr"
         /\ b.riff = EntrySize(dir[n]) - CkSize
         /\ b.dat = EntrySize(dir[n]) - HeaderSize

\* C6: after a header patch whose read_block or write_block failed, the
\* directory table is not written
C6_DirAfterPatch ==
  [][ (pc = "ex_dir" /\ patch # "ok") => dir' = dir ]_vars

\* C15: when find_cluster returns 0 while the file is extended (the card is
\* full), start_logging does not return an error: nothing more is written
\* to the file and the directory entry that is committed has the file's
\* first cluster and as size the bytes written to the file so far
C15_CardFullCommits ==
  [][ /\ (/\ pc = "ex_inner" /\ pc' # "ex_inner" /\ iofail' = 0
          /\ ~(sl.circ_track # sl.circ_bookmark /\ valid_block(sl.block_num))
          /\ \A c \in 2..MaxCluster : fat[1][c] # 0) =>
           /\ pc' = "ex_patch"
           /\ rc' = rc /\ disk' = disk /\ sl' = sl
      /\ (pc = "ex_dir" /\ pc' # "ex_dir" /\ iofail' = 0
            /\ FirstFreeEntry(dir, 0) < Len(dir)) =>
           LET n == FirstFreeEntry(dir, 0) + 1
           IN /\ pc' = "round" /\ rc' = rc
              /\ EntryCluster(dir'[n]) = sl.start_cluster
              /\ disk[get_cluster_offset(sl.start_cluster)].kind = "hdr"
              /\ EntrySize(dir'[n]) = sl.total_bytes
              /\ sl.total_bytes = SectorSize * (1 + Len(copied)) ]_vars

\* the copy of the ring was cut short by a full card (the loop condition of
\* line 419 still holds), and the file is in the directory with every byte
\* that was written
C15_Witness ==
  /\ pc = "round" /\ patch = "ok" /\ iofail = 0 /\ rc = 0
  /\ sl.circ_track # sl.circ_bookmark /\ sl.cluster_num > 0
  /\ \A c \in 2..MaxCluster : fat[1][c] # 0
  /\ EntryCluster(dir[1]) = sl.start_cluster
  /\ EntrySize(dir[1]) = SectorSize * (1 + Len(copied))
  /\ Len(copied) > 0

(***************************************************************************)
(* SpecLog: start_logging of the sensor variant (test/main.c).  A build    *)
(* has the accelerometer stream alone or both streams (_ACCEL_DAT,         *)
(* _GYRO_DAT); lg.streams is the build's choice.                           *)
(***************************************************************************)
\* CSV lines appended in one behaviour
MaxLines == 60
\* calls of start_logging in one behaviour
MaxSessions == 1
\* #define BUFF_SIZE 600 of the sensor variant
LogBuffSize == 600
\* bytes of the header text put in data_accel and data_gyro
AccelHeaderLen == 53
GyroHeaderLen == 54
\* a line is a timestamp, three values and separators, 8 to 28 bytes; the
\* lines of one behaviour have one of the two longest sizes
LineLens == {27, 28}

StreamOrder == <<"accel", "gyro">>
Type(s) == IF s = "accel" THEN ACCEL_DATA ELSE GYRO_DATA
HeaderLen(s) == IF s = "accel" THEN AccelHeaderLen ELSE GyroHeaderLen
\* a block of the data area: n bytes of stream s, zero filled to 512
CsvBlock(s, n) == [kind |-> "csv", s |-> s, n |-> n]
PutBlock(d, off, blk) == IF off \in DOMAIN d THEN [d EXCEPT ![off] = blk] ELSE d

LogVolumes ==
  {[nf |-> 1, free |-> 2..MaxCluster], [nf |-> 2, free |-> 2..4]}
Builds == {{"accel"}, {"accel", "gyro"}}

\* the variables of the audio variant and of the allocator's callers
audioVars ==
  <<files, pending, returned, call, data_mic, data_sd, buffers, byte_num,
    dump_data, hold_flag, timer, isr, swap, sl, wr, nsamp, filled, ringlog,
    copied, overruns, patch>>

InitLog ==
  /\ fat_size = SectorSize
  /\ sectors_per_cluster \in 1..MaxSectorsPerCluster
  /\ \E v \in LogVolumes, b \in Builds, len \in LineLens :
       /\ number_of_fats = v.nf
       /\ fat = [k \in 1..v.nf |-> ZappImage(v.free)]
       /\ lg = LgInit(b, v, len)
  /\ dir = [n \in 1..RootEntries |-> FreeEntry]
  /\ disk = [o \in DataOffsets |-> NoBlock]
  /\ data = NoBlock
  /\ files = <<>> /\ pending = <<>> /\ returned = <<>>
  /\ call = [op |-> "none", ret |-> 0, entry |-> 0, num |-> 0]
  /\ data_mic = "NULL" /\ data_sd = "NULL"
  /\ buffers = [b \in Buffers |-> ZeroBlock]
  /\ byte_num = 0 /\ dump_data = 0 /\ hold_flag = 0
  /\ logging = 0 /\ stop_flag = 0
  /\ gie = FALSE /\ timer = FALSE
  /\ pc = "lg_entry" /\ isr = "idle" /\ swap = "NULL"
  /\ rc = 0 /\ sl = SlInit /\ wr = NoWrite
  /\ nsamp = 0 /\ filled = <<>> /\ ringlog = <<>> /\ copied = <<>>
  /\ overruns = 0 /\ patch = "ok" /\ presses = 0 /\ round = 0 /\ iofail = 0
  /\ DriverOff

\* the state a pass over the streams threads through
LgState(L, F, D, K, buf) ==
  [lg |-> L, fat |-> F, dir |-> D, disk |-> K, data |-> buf, ret |-> 0,
   brk |-> FALSE]

\* lines 387-399 and 511-523: the first cluster of each stream
RECURSIVE lg_open(_, _, _, _)
lg_open(st, k, fs, io) ==
  IF k > Len(StreamOrder) \/ st.ret # 0 THEN st
  ELSE LET s == StreamOrder[k]
       IN IF s \notin st.lg.streams THEN lg_open(st, k + 1, fs, io)
          ELSE LET fc == find_cluster(st.fat, number_of_fats, fat_size, st.data,
                                      IF s = fs THEN io ELSE 0)
               IN IF fc.ret = 0
                  THEN [st EXCEPT !.ret = 2, !.fat = fc.fat, !.data = fc.data]
                  ELSE lg_open([st EXCEPT
                                  !.fat = fc.fat, !.data = fc.data,
                                  !.lg = [st.lg EXCEPT
                                            !.start_cluster[s] = fc.ret,
                                            !.cluster_count[s] = fc.ret,
                                            !.block_count[s] = 0,
                                            !.byte_count[s] = HeaderLen(s)]],
                               k + 1, fs, io)

\* block_offset = cluster_offset + block_count * 512
block_offset(L, s) ==
  get_cluster_offset(L.cluster_count[s]) + (L.block_count[s] * SectorSize)
Written(L, s, n) ==
  Append(L.writes, [s |-> s, cluster |-> L.cluster_count[s],
                    block |-> L.block_count[s], n |-> n])

\* lines 873-922: each stream whose block is full is written
RECURSIVE lg_blocks(_, _, _)
lg_blocks(st, k, io) ==
  IF k > Len(StreamOrder) \/ st.ret # 0 THEN st
  ELSE LET s == StreamOrder[k]
           L == st.lg
       IN IF s \notin L.streams \/ L.byte_count[s] < SectorSize
          THEN lg_blocks(st, k + 1, io)
          ELSE IF L.byte_count[s] >= LogBuffSize THEN [st EXCEPT !.ret = 3]
          ELSE LET blk == CsvBlock(s, SectorSize)
                   L1  == [L EXCEPT !.data_len[s] = L.byte_count[s],
                                    !.byte_count[s] = SectorSize,
                                    !.total_bytes[s] = @ + SectorSize]
               IN IF io = k
                  THEN [st EXCEPT !.ret = 4, !.lg = L1, !.data = blk]
                  ELSE lg_blocks([st EXCEPT
                                    !.data = blk,
                                    !.disk = PutBlock(@, block_offset(L, s), blk),
                                    !.lg = [L1 EXCEPT
                                              !.byte_count[s] = 0,
                                              !.block_count[s] = (@ + 1) % 256,
                                              !.writes = Written(L, s, SectorSize)]],
                                 k + 1, io)

\* lines 926-954: the remaining bytes of each stream when stop is seen
RECURSIVE lg_final(_, _, _)
lg_final(st, k, io) ==
  IF k > Len(StreamOrder) \/ st.ret # 0 THEN st
  ELSE LET s == StreamOrder[k]
           L == st.lg
       IN IF s \notin L.streams THEN lg_final(st, k + 1, io)
          ELSE LET blk == CsvBlock(s, L.byte_count[s])
                   L1  == [L EXCEPT !.total_bytes[s] = @ + L.byte_count[s]]
               IN IF io = Len(StreamOrder) + k
                  THEN [st EXCEPT !.ret = 5, !.lg = L1, !.data = blk]
                  ELSE lg_final([st EXCEPT
                                   !.data = blk,
                                   !.disk = PutBlock(@, block_offset(L, s), blk),
                                   !.lg = [L1 EXCEPT
                                             !.writes = Written(L, s, L.byte_count[s])]],
                                k + 1, io)

\* lines 973-1009: each stream whose cluster is full gets the next cluster
RECURSIVE lg_grow(_, _, _, _)
lg_grow(st, k, fs, io) ==
  IF k > Len(StreamOrder) \/ st.ret # 0 \/ st.brk THEN st
  ELSE LET s == StreamOrder[k]
           L == st.lg
       IN IF s \notin L.streams \/ L.block_count[s] < sectors_per_cluster
          THEN lg_grow(st, k + 1, fs, io)
          ELSE LET fc == find_cluster(st.fat, number_of_fats, fat_size, st.data,
                                      IF s = fs /\ io <= 3 THEN io ELSE 0)
                   uf == update_fat(fc.fat, number_of_fats, fat_size, fc.data,
                                    (L.cluster_count[s] * 2) % U16, fc.ret,
                                    IF s = fs /\ io > 3 THEN io - 3 ELSE 0)
               IN IF fc.ret = 0
                  THEN [st EXCEPT !.brk = TRUE, !.fat = fc.fat, !.data = fc.data]
                  ELSE IF uf.ret # 0
                  THEN [st EXCEPT !.ret = 6, !.fat = uf.fat, !.data = uf.data]
                  ELSE lg_grow([st EXCEPT
                                  !.fat = uf.fat, !.data = uf.data,
                                  !.lg = [L EXCEPT !.block_count[s] = 0,
                                                   !.cluster_count[s] = fc.ret]],
                               k + 1, fs, io)

\* lines 1017-1037: one directory entry per stream
RECURSIVE lg_entries(_, _, _)
lg_entries(st, k, io) ==
  IF k > Len(StreamOrder) \/ st.ret # 0 THEN st
  ELSE LET s == StreamOrder[k]
           L == st.lg
       IN IF s \notin L.streams THEN lg_entries(st, k + 1, io)
          ELSE LET ud == update_dir_table(st.dir, st.data, L.start_cluster[s],
                                          L.total_bytes[s], L.file_num, Type(s),
                                          IF io > ((2 * k) - 1) /\ io <= ((2 * k) + 1)
                                          THEN io - ((2 * k) - 1) ELSE 0)
               IN IF ud.ret # 0
                  THEN [st EXCEPT !.ret = 7, !.dir = ud.dir, !.data = ud.data]
                  ELSE lg_entries([st EXCEPT !.dir = ud.dir, !.data = ud.data],
                                  k + 1, io)

Active == {s \in StreamNames : s \in lg.streams}
Here == LgState(lg, fat, dir, disk, data)
BlockCond == (\A s \in Active : lg.block_count[s] < sectors_per_cluster) /\ stop_flag = 0
ByteCond == (\A s \in Active : lg.byte_count[s] < SectorSize) /\ stop_flag = 0
\* return n; from start_logging
LgReturn(n) == rc' = n /\ pc' = "lg_ret"

\* main, line 287 and start_logging, lines 322-640, up to the cluster loop
lg_entry ==
  /\ pc = "lg_entry" /\ round < MaxSessions
  /\ round' = round + 1
  /\ logging' = 1
  /\ stop_flag' = 0
  /\ \E low \in BOOLEAN :
       IF low
       THEN /\ LgReturn(1)
            /\ UNCHANGED <<fat, data, lg, gie, iofail>>
       ELSE \E fs \in Active, io \in Fails(3) :
              LET L0 == [LgInit(lg.streams, lg.vol, lg.len) EXCEPT
                           !.lines = lg.lines]
                  st == lg_open(LgState(L0, fat, dir, disk, data), 1, fs, io)
              IN /\ iofail' = Count(io)
                 /\ gie' = TRUE
                 /\ fat' = st.fat
                 /\ data' = st.data
                 /\ lg' = st.lg
                 /\ IF st.ret # 0 THEN LgReturn(st.ret)
                    ELSE rc' = rc /\ pc' = "lg_blocktest"
  /\ UNCHANGED <<number_of_fats, fat_size, cardVars, presses, audioVars, driverVars>>

\* lines 661-706: the cluster offsets, the test of the block loop and, inside
\* it, the overflowed bytes moved to the start of each buffer
lg_blocktest ==
  /\ pc = "lg_blocktest"
  /\ IF BlockCond
     THEN /\ lg' = [lg EXCEPT
                      !.byte_count = [s \in StreamNames |->
                         IF s \in Active /\ lg.data_len[s] > SectorSize
                         THEN (lg.byte_count[s] + (lg.data_len[s] - SectorSize)) % U16
                         ELSE lg.byte_count[s]],
                      !.data_len = [s \in StreamNames |-> 0]]
          /\ pc' = "lg_bytetest"
     ELSE /\ lg' = lg
          /\ pc' = "lg_after"
  /\ UNCHANGED <<fatVars, data, cardVars, logging, stop_flag, gie, rc, presses,
                 round, iofail, audioVars, driverVars>>

\* lines 709-716: the test of the byte loop
lg_bytetest ==
  /\ pc = "lg_bytetest"
  /\ pc' = IF ByteCond THEN "lg_wait" ELSE "lg_flush"
  /\ UNCHANGED <<fatVars, data, cardVars, logging, stop_flag, gie, rc, presses,
                 round, iofail, audioVars, driverVars, lg>>

\* lines 718-866: new data of one or both sensors is turned into a line of
\* its buffer; then the battery voltage is looked at
lg_sample ==
  /\ pc = "lg_wait" /\ gie
  /\ \E W \in (SUBSET Active) \ {{}}, low \in BOOLEAN :
       /\ lg.lines + Cardinality(W) <= MaxLines
       /\ lg' = [lg EXCEPT
                   !.byte_count = [s \in StreamNames |->
                      IF s \in W THEN lg.byte_count[s] + lg.len ELSE lg.byte_count[s]],
                   !.lines = @ + Cardinality(W)]
       /\ stop_flag' = IF low THEN 1 ELSE stop_flag
  /\ pc' = "lg_bytetest"
  /\ UNCHANGED <<fatVars, data, cardVars, logging, gie, rc, presses, round,
                 iofail, audioVars, driverVars>>

\* lines 870-967: full blocks are written; when stop is seen the remaining
\* bytes are written too
lg_flush ==
  /\ pc = "lg_flush"
  /\ \E io \in Fails(2 * Len(StreamOrder)) :
       LET b  == lg_blocks(Here, 1, io)
           st == IF stop_flag = 1 THEN lg_final(b, 1, io) ELSE b
       IN /\ iofail' = Count(io)
          /\ lg' = st.lg
          /\ disk' = st.disk
          /\ data' = st.data
          /\ IF st.ret # 0 THEN LgReturn(st.ret)
             ELSE rc' = rc /\ pc' = "lg_blocktest"
  /\ UNCHANGED <<fatVars, sectors_per_cluster, dir, logging, stop_flag, gie,
                 presses, round, audioVars, driverVars>>

\* lines 969-1011: break on stop; else a full cluster is followed by a new one
lg_after ==
  /\ pc = "lg_after"
  /\ IF stop_flag = 1
     THEN /\ pc' = "lg_commit"
          /\ UNCHANGED <<fat, data, lg, rc, iofail>>
     ELSE \E fs \in Active, io \in Fails(6) :
            LET st == lg_grow(Here, 1, fs, io)
            IN /\ iofail' = Count(io)
               /\ fat' = st.fat
               /\ data' = st.data
               /\ lg' = st.lg
               /\ IF st.ret # 0 THEN LgReturn(st.ret)
                  ELSE rc' = rc /\ pc' = IF st.brk THEN "lg_commit" ELSE "lg_blocktest"
  /\ UNCHANGED <<number_of_fats, fat_size, cardVars, logging, stop_flag, gie,
                 presses, round, audioVars, driverVars>>

\* lines 1013-1044: file number, directory entries, return 0
lg_commit ==
  /\ pc = "lg_commit"
  /\ \E io \in Fails(1 + (2 * Len(StreamOrder))) :
       LET gf == get_file_num(dir, data, IF io = 1 THEN 1 ELSE 0)
           L1 == [lg EXCEPT !.file_num = gf.ret]
           st == lg_entries(LgState(L1, fat, dir, disk, gf.data), 1, io)
       IN /\ iofail' = Count(io)
          /\ lg' = st.lg
          /\ dir' = st.dir
          /\ data' = st.data
          /\ IF st.ret # 0
             THEN LgReturn(st.ret) /\ UNCHANGED <<gie, logging>>
             ELSE LgReturn(0) /\ gie' = FALSE /\ logging' = 0
  /\ UNCHANGED <<fatVars, sectors_per_cluster, disk, stop_flag, presses, round,
                 audioVars, driverVars>>

\* main, lines 287-307: an error code of 2 or more hangs; else the device
\* goes off and the next hold of the button starts a session
lg_main ==
  /\ pc = "lg_ret"
  /\ pc' = IF rc >= 2 THEN "lg_hang" ELSE "lg_entry"
  /\ UNCHANGED <<fatVars, data, cardVars, logging, stop_flag, gie, rc, presses,
                 round, iofail, audioVars, driverVars, lg>>

\* PORT1_ISR of the sensor variant, lines 1397-1436: a press while logging
lg_button ==
  /\ gie /\ logging = 1 /\ pc \notin {"lg_entry", "lg_ret", "lg_hang"}
  /\ presses < MaxPresses
  /\ presses' = presses + 1
  /\ stop_flag' = 1
  /\ UNCHANGED <<fatVars, data, cardVars, logging, gie, pc, rc, round, iofail,
                 audioVars, driverVars, lg>>

NextLog ==
  \/ lg_entry \/ lg_blocktest \/ lg_bytetest \/ lg_sample \/ lg_flush
  \/ lg_after \/ lg_commit \/ lg_main \/ lg_button
SpecLog == InitLog /\ [][NextLog]_vars

(***************************************************************************)
(* Properties of a session of the sensor variant (SpecLog)                 *)
(***************************************************************************)
\* directory entries in use
UsedEntries == {n \in 1..Len(dir) : dir[n].b0 # 0}
\* a first session of the accelerometer build on the empty volume of one
\* FAT and one sector per cluster has returned 0 with three clusters' worth
\* of bytes in the file and no block transfer failed
ThreeClusterSession ==
  /\ pc = "lg_ret" /\ rc = 0 /\ round = 1 /\ iofail = 0
  /\ lg.streams = {"accel"}
  /\ number_of_fats = 1 /\ sectors_per_cluster = 1
  /\ lg.vol.free = 2..MaxCluster
  /\ lg.total_bytes["accel"] = 3 * bytes_per_cluster

\* C7: on a volume of 512-byte sectors, 1 sector per cluster, 1 FAT and 16
\* root entries, a session that streamed exactly 3 clusters' worth of bytes
\* leaves exactly one directory entry, start cluster 2, size 3 x
\* bytes_per_cluster, the chain 2 -> 3 -> 4 -> end of chain, and no further
\* cluster claimed or linked
C7_ThreeClusterFile ==
  ThreeClusterSession =>
    /\ UsedEntries = {1}
    /\ EntryCluster(dir[1]) = 2 /\ EntrySize(dir[1]) = 3 * bytes_per_cluster
    /\ fat[1][2] = 3 /\ fat[1][3] = 4 /\ fat[1][4] = EOC
    /\ \A e \in 5..MaxCluster : fat[1][e] = 0


(***************************************************************************)
(* SpecScan: find_cluster step by step, one pass of the for loop per FAT   *)
(* sector, on volumes whose FAT is up to and beyond 65,536 bytes.  The     *)
(* FAT holds the entries of its domain; every other entry reads 0xFFFF.    *)
(***************************************************************************)
\* sizes of one FAT in bytes: one sector, 127 and 128 sectors, 129 sectors
ScanFatSizes == {SectorSize, 127 * SectorSize, 128 * SectorSize, 129 * SectorSize}
\* the free clusters of the volume at mount, as far as the FAT reaches
ScanFreeSets == {{}, {2}, {255}, {300}, {32767}, {32768}, {33000}}
ScanImage(fsz, free) ==
  [e \in {0, 1} \cup {c \in free : 2 * c < fsz} |->
     IF e = 0 THEN 65528 ELSE IF e = 1 THEN EOC ELSE 0]
\* every variable of the other parts
scanRest == <<files, pending, returned, call, zappVars, lg, cs, sd, card, boot>>

InitScan ==
  /\ fat_size \in ScanFatSizes
  /\ number_of_fats \in 1..2
  /\ \E free \in ScanFreeSets :
       fat = [k \in 1..number_of_fats |-> ScanImage(fat_size, free)]
  /\ data = NoBlock
  /\ files = <<>> /\ pending = <<>> /\ returned = <<>>
  /\ call = [op |-> "none", ret |-> 0, entry |-> 0, num |-> 0]
  /\ ZappOff
  /\ lg = LgOff
  /\ scan = [pc |-> "idle", i |-> 0, ret |-> 0, failed |-> FALSE]
  /\ cs = "high" /\ sd = [pc |-> "off"] /\ card = [mode |-> "off"]
  /\ boot = [pc |-> "off"]

\* lines 334-338: the call, i = 0
fc_call ==
  /\ scan.pc \in {"idle", "done"}
  /\ scan' = [pc |-> "loop", i |-> 0, ret |-> 0, failed |-> FALSE]
  /\ UNCHANGED <<fatVars, data, scanRest>>

\* lines 338-366: the loop test and the 256 entries of one sector; io is the
\* ordinal of the block transfer that fails
fc_sector ==
  /\ scan.pc = "loop"
  /\ \E io \in 0..3 :
       LET s  == scan.i \div SectorSize
           b  == FatSector(fat, 1, s)
           x  == FirstZeroWord(b)
           b2 == [b EXCEPT ![x] = EOC]
           F1 == PutFatSector(fat, 1, s, b2)
           c  == ((scan.i + (2 * (x - 1))) \div 2) % U16
           Return(r, f) == scan' = [scan EXCEPT !.pc = "done", !.ret = r, !.failed = f]
       IN IF ~(scan.i < fat_size)
          THEN io = 0 /\ Return(0, FALSE) /\ UNCHANGED <<fat, data>>
          ELSE IF io = 1
          THEN Return(0, TRUE) /\ UNCHANGED <<fat, data>>
          ELSE IF x = 0
          THEN /\ io = 0
               /\ scan' = [scan EXCEPT !.i = (scan.i + SectorSize) % U16]
               /\ data' = [kind |-> "fat"]
               /\ fat' = fat
          ELSE /\ data' = [kind |-> "fat"]
               /\ IF io = 2 THEN Return(0, TRUE) /\ fat' = fat
                  ELSE IF number_of_fats > 1
                  THEN IF io = 3 THEN Return(0, TRUE) /\ fat' = F1
                       ELSE Return(c, FALSE) /\ fat' = PutFatSector(F1, 2, s, b2)
                  ELSE io = 0 /\ Return(c, FALSE) /\ fat' = F1
  /\ UNCHANGED <<number_of_fats, fat_size, scanRest>>

NextScan == fc_call \/ fc_sector
SpecScan == InitScan /\ [][NextScan]_vars /\ WF_vars(fc_sector)

(***************************************************************************)
(* Properties of the scan (SpecScan)                                       *)
(***************************************************************************)
\* C11: find_cluster terminates for every FAT size, also on a full volume
\* whose FAT is 65,536 bytes or larger, where it returns 0
C11_ScanTerminates == (scan.pc = "loop") ~> (scan.pc = "done")

(***************************************************************************)
(* SpecDir: get_file_num and update_dir_table on directory tables of one   *)
(* to three sectors.  The directory functions are called on the table that *)
(* is on the card, as start_logging calls them when a file is closed.      *)
(***************************************************************************)
MaxDirCalls == 2

\* slots as another writer of the volume leaves them: a file of this
\* firmware ("ACCLnnn CSV"), a file with another name and digits at bytes
\* 4..6 ("PICT042 JPG"), a name without a number ("README  TXT"), a name of
\* this firmware with a letter in the suffix ("ACCL0A5 CSV"), a deleted file
File(num) == [dte(2 + num, 100 * num, num) EXCEPT !.b0 = Prefix(ACCEL_DATA)]
Other42 == [dte(60, 4000, 42) EXCEPT !.b0 = 80]
Readme == [dte(61, 20, 0) EXCEPT !.b0 = 82, !.d4 = 77, !.d5 = 69, !.d6 = 32]
BadSuffix == [File(5) EXCEPT !.d5 = 65]
Gone(num) == [File(num) EXCEPT !.b0 = Deleted]
Files(k) == [x \in 1..k |-> File(x)]
\* a table of n slots that starts with pre; the slots after it were never
\* used
Pad(pre, n) == [x \in 1..n |-> IF x <= Len(pre) THEN pre[x] ELSE FreeEntry]

DirTables ==
  {Pad(<<>>, EntriesPerSector),
   Pad(<<File(1), File(2), File(5)>>, EntriesPerSector),
   Pad(<<File(1), BadSuffix, File(3)>>, EntriesPerSector),
   Pad(<<Other42>>, EntriesPerSector),
   Pad(<<Readme, File(7)>>, EntriesPerSector),
   Pad(<<File(1), Gone(9), File(2)>>, EntriesPerSector),
   Pad(Files(EntriesPerSector - 1), EntriesPerSector),
   Pad(Files(EntriesPerSector), EntriesPerSector),
   Pad(Files(EntriesPerSector), 2 * EntriesPerSector),
   Pad([Files(EntriesPerSector + 4) EXCEPT ![EntriesPerSector + 2] = Gone(18)],
       2 * EntriesPerSector),
   Pad(Files(2 * EntriesPerSector), 2 * EntriesPerSector),
   Pad(Files(EntriesPerSector), 3 * EntriesPerSector),
   Pad(Files((2 * EntriesPerSector) + 1), 3 * EntriesPerSector)}

\* arguments of update_dir_table: cluster, file_size, file_num, type (5 is
\* no type of data)
DirClusters == {2, 258}
DirSizes == {1536, 16909060}
DirNums == {12, 345}
DirTypes == {ACCEL_DATA, GYRO_DATA, 5}

dirRest ==
  <<fatVars, files, pending, returned, sectors_per_cluster, disk, progVars,
    machVars, histVars, lg, driverVars>>

InitDir ==
  /\ fat_size = SectorSize
  /\ number_of_fats = 1
  /\ fat = [k \in 1..1 |-> ScanImage(SectorSize, {})]
  /\ data = NoBlock
  /\ files = <<>> /\ pending = <<>> /\ returned = <<>>
  /\ call = [op |-> "none", n |-> 0]
  /\ sectors_per_cluster = 1
  /\ dir \in DirTables
  /\ disk = <<>>
  /\ ProgOff
  /\ lg = LgOff
  /\ DriverOff

\* file_num = get_file_num(data)
dir_num ==
  /\ call.n < MaxDirCalls
  /\ \E io \in 0..3 :
       LET r == get_file_num(dir, data, io)
       IN /\ data' = r.data
          /\ call' = [op |-> "get_file_num", n |-> call.n + 1, io |-> io,
                      ret |-> r.ret, before |-> dir]
  /\ UNCHANGED <<dir, dirRest>>

\* update_dir_table(data, cluster, file_size, file_num, type)
dir_update ==
  /\ call.n < MaxDirCalls
  /\ \E cluster \in DirClusters, file_size \in DirSizes, file_num \in DirNums,
        type \in DirTypes, io \in 0..4 :
       LET r == update_dir_table(dir, data, cluster, file_size, file_num, type, io)
       IN /\ data' = r.data
          /\ dir' = r.dir
          /\ call' = [op |-> "update_dir_table", n |-> call.n + 1, io |-> io,
                      ret |-> r.ret, before |-> dir, cluster |-> cluster,
                      file_size |-> file_size, file_num |-> file_num,
                      type |-> type]
  /\ UNCHANGED dirRest

NextDir == dir_num \/ dir_update
SpecDir == InitDir /\ [][NextDir]_vars

(***************************************************************************)
(* Properties of the directory functions (SpecDir)                         *)
(***************************************************************************)
\* a call of update_dir_table with a type of data, no block transfer failed
Stored == call.op = "update_dir_table" /\ call.io = 0 /\ call.type # 5
Reusable(D) == FirstFreeEntry(D, 0) < Len(D)

\* C12: when update_dir_table has returned 0, the first slot in table order
\* whose first byte was 0x00 or 0xE5 holds the new record, the cluster
\* little-endian at bytes 26-27 and the size at bytes 28-31, and every other
\* slot is as it was, also when that slot is in the second or a later sector
C12_StoresInFirstReusableSlot ==
  (Stored /\ call.ret = 0 /\ Reusable(call.before)) =>
    LET n == FirstFreeEntry(call.before, 0) + 1
    IN /\ dir[n].b0 = Prefix(call.type)
       /\ EntryCluster(dir[n]) = call.cluster
       /\ EntrySize(dir[n]) = call.file_size
       /\ \A x \in 1..Len(dir) : x # n => dir[x] = call.before[x]

\* C13: update_dir_table reports a full directory exactly when no slot of
\* the table, in any sector, has first byte 0x00 or 0xE5, and then no slot
\* is written
C13_FullIffNoReusableSlot ==
  Stored =>
    /\ (call.ret = 1) <=> ~Reusable(call.before)
    /\ ~Reusable(call.before) => dir = call.before

\* the names this firmware gives its files: dte[] and the two prefixes
EngineName(e) ==
  e.b0 \in {Prefix(ACCEL_DATA), Prefix(GYRO_DATA), dte(0, 0, 0).b0}
Suffix(e) == ((e.d4 - 48) * 100) + ((e.d5 - 48) * 10) + (e.d6 - 48)
Numbered(D) ==
  {x \in 1..Len(D) : /\ EngineName(D[x])
                     /\ \A d \in {D[x].d4, D[x].d5, D[x].d6} : d \in 48..57}
MaxSuffix(D) ==
  IF Numbered(D) = {} THEN 0
  ELSE CHOOSE m \in {Suffix(D[x]) : x \in Numbered(D)} :
         \A x \in Numbered(D) : Suffix(D[x]) <= m

\* C14: get_file_num returns 1 plus the largest three-digit suffix of the
\* files that carry a name of this firmware, 1 when there is none, whatever
\* other names are in the table; a suffix with a non-digit is passed over
C14_NextSuffixOfEngineFiles ==
  (call.op = "get_file_num" /\ call.io = 0) =>
    call.ret = MaxSuffix(call.before) + 1

(***************************************************************************)
(* SpecSd: the block transport (init_sd, go_idle_sd, write_block,          *)
(* read_block) against a card whose answers are free.  A step is the code  *)
(* up to and including one answer of the card.  send_cmd_sd returns the    *)
(* first byte with bit 7 clear, or the 256th byte read.  The buffer and    *)
(* the blocks of the card are sequences of 512 bytes.                      *)
(***************************************************************************)
\* calls of the transport in one behaviour
MaxSdOps == 3
\* polls of one wait that are counted
MaxPolls == 3
\* uint8_t short_timeout = 10; uint16_t long_timeout = 0x1000
short_timeout == 10
long_timeout == 4096

\* answers of the card: R1 bytes (ready, idle, illegal command, idle and
\* illegal command) and no answer (0xFF)
Resp == {0, 1, 4, 5, 255}
\* data-response tokens: accepted (with and without the upper bits set), CRC
\* error, write error, none
Tokens == {5, 229, 11, 13, 255}
\* first and second byte of the answer to CMD13
Status1 == {0, 1, 255}
Status2 == {0, 1, 128}
\* what wait_startblock sees: the start block token, an error token, 500
\* bytes 0xFF
StartTokens == {254, 9, 255}

SdOffsets == {0, SectorSize}
SdCounts == {0, 300, 512, 600}
Ramp == [x \in 1..SectorSize |-> ((x * 7) % 255) + 1]
Ones == [x \in 1..SectorSize |-> 255]
\* a block of the card that has not been written in this behaviour
OldBlock == [x \in 1..SectorSize |-> 170]

\* write_block without the padding of line 281
sent_bytes_nopad(buf, count) ==
  LET c == IF count > 512 THEN 512 ELSE count
  IN SubSeq(buf, 1, c)
\* lines 273-281: the bytes sent between the token 0xFE and the dummy CRC
sent_bytes(buf, count) ==
  LET c == IF count > 512 THEN 512 ELSE count
  IN SubSeq(buf, 1, c) \o [x \in 1..(512 - c) |-> 0]
\* the card takes the 512 bytes that follow the token as the block, whatever
\* the sender means them to be (the next bytes on the wire are the dummy CRC
\* and idle bytes, 0xFF)
CardTakes(p) == [x \in 1..SectorSize |-> IF x <= Len(p) THEN p[x] ELSE 255]

\* line 283: (spia_rec() & 0x1F) != 0x05 is the failure
data_accepted(tok) == (tok % 32) = 5
\* a status test that looks at the first byte only
status_ok_first(r1, r2) == ~(r1 # 0)
\* line 291: send_cmd_sd(CMD13, 0) || spia_rec() is the failure
status_ok(r1, r2) == ~(r1 # 0 \/ r2 # 0)
\* a CMD0 test that takes the answer 0x00 too
cmd0_idle_any(r) == r <= 1
\* line 82: send_cmd_sd(CMD0, 0) != 1 keeps the loop going
cmd0_idle(r) == r = 1

\* what the card has answered in the call in progress (history)
NoHist ==
  [cmd0 |-> FALSE, cmd8 |-> FALSE, echo |-> FALSE, acmd41 |-> FALSE,
   cmd58 |-> FALSE, r |-> -1, tok |-> -1, st1 |-> -1, st2 |-> -1,
   sent |-> -1]
SdIdle(n, wrote) ==
  [pc |-> "idle", op |-> "none", n |-> n, tmr |-> 0, ret |-> 0, offset |-> 0,
   count |-> 0, h |-> NoHist, wrote |-> wrote, polls |-> 0]

sdRest ==
  <<fatVars, files, pending, returned, call, zappVars, lg, scan, boot>>

InitSd ==
  /\ fat_size = SectorSize
  /\ number_of_fats = 1
  /\ fat = [k \in 1..1 |-> ScanImage(SectorSize, {})]
  /\ data \in {Ramp, Ones}
  /\ files = <<>> /\ pending = <<>> /\ returned = <<>>
  /\ call = [op |-> "none", n |-> 0]
  /\ ZappOff
  /\ lg = LgOff
  /\ scan = [pc |-> "off"]
  /\ boot = [pc |-> "off"]
  /\ cs = "high"
  /\ sd = SdIdle(0, [o \in SdOffsets |-> <<>>])
  /\ card = [o \in SdOffsets |-> OldBlock]

\* the call of an operation: its arguments, fresh history
SdCall(op, offset, count, pc1, tmr) ==
  sd' = [SdIdle(sd.n + 1, sd.wrote) EXCEPT
           !.pc = pc1, !.op = op, !.offset = offset, !.count = count,
           !.tmr = tmr]
\* CS_HIGH_SD(); return ret (the locals are gone)
SdReturn(ret, h, wrote) ==
  /\ cs' = "high"
  /\ sd' = [sd EXCEPT !.pc = "idle", !.ret = ret, !.tmr = 0, !.h = h,
                      !.wrote = wrote, !.polls = 0]

\* init_sd, lines 68-79: CS high, 80 clocks, CS low.  main calls it before
\* any transfer
init_sd ==
  /\ sd.pc = "idle" /\ sd.n = 0
  /\ SdCall("init_sd", 0, 0, "cmd0", short_timeout)
  /\ cs' = "low"
  /\ UNCHANGED <<data, card, sdRest>>

\* init_sd, lines 82-86: one turn of the CMD0 loop, or its end
init_cmd0 ==
  /\ sd.pc = "cmd0"
  /\ IF sd.tmr = 0
     THEN SdReturn(1, sd.h, sd.wrote)
     ELSE \E r \in Resp :
            /\ cs' = cs
            /\ sd' = IF cmd0_idle(r)
                     THEN [sd EXCEPT !.pc = "cmd8", !.h.cmd0 = (r = 1)]
                     ELSE [sd EXCEPT !.tmr = @ - 1]
  /\ UNCHANGED <<data, card, sdRest>>

\* init_sd, lines 89-97: CMD8 and the four bytes that follow
init_cmd8 ==
  /\ sd.pc = "cmd8"
  /\ \E r \in Resp, ocr2 \in {0, 1}, ocr3 \in {0, 170} :
       LET h == [sd.h EXCEPT !.cmd8 = (r = 1),
                             !.echo = (r = 1 /\ ocr2 = 1 /\ ocr3 = 170)]
       IN IF r # 1 THEN SdReturn(1, h, sd.wrote)
          ELSE IF ocr2 # 1 \/ ocr3 # 170 THEN SdReturn(1, h, sd.wrote)
          ELSE /\ cs' = cs
               /\ sd' = [sd EXCEPT !.pc = "acmd41", !.tmr = long_timeout, !.h = h]
  /\ UNCHANGED <<data, card, sdRest>>

\* init_sd, lines 100-105, send_acmd_sd: one turn of the ACMD41 loop, or its
\* end
init_acmd41 ==
  /\ sd.pc = "acmd41"
  /\ IF sd.tmr = 0
     THEN SdReturn(1, sd.h, sd.wrote)
     ELSE \E resp \in Resp, r \in Resp :
            LET res == IF resp > 1 THEN resp ELSE r
            IN /\ cs' = cs
               /\ sd' = IF res # 0
                        THEN [sd EXCEPT !.tmr = @ - 1]
                        ELSE [sd EXCEPT !.pc = "cmd58",
                                        !.h.acmd41 = (resp <= 1 /\ r = 0)]
  /\ UNCHANGED <<data, card, sdRest>>

\* init_sd, lines 108-127: CMD58, the OCR, the card type; both types return 0
init_cmd58 ==
  /\ sd.pc = "cmd58"
  /\ \E r \in Resp, ocr0 \in {0, 64, 192} :
       LET h == [sd.h EXCEPT !.cmd58 = (r = 0)]
           card_type == IF (ocr0 \div 64) % 2 = 1 THEN 12 ELSE 4
       IN IF r # 0 THEN SdReturn(1, h, sd.wrote)
          ELSE IF card_type = 4 THEN SdReturn(0, h, sd.wrote)
          ELSE IF card_type = 12 THEN SdReturn(0, h, sd.wrote)
          ELSE SdReturn(1, h, sd.wrote)
  /\ UNCHANGED <<data, card, sdRest>>

\* go_idle_sd, lines 133-139
go_idle_sd ==
  /\ sd.pc = "idle" /\ sd.n < MaxSdOps
  /\ \E r \in Resp :
       sd' = [SdIdle(sd.n + 1, sd.wrote) EXCEPT !.op = "go_idle_sd"]
  /\ cs' = "low"
  /\ UNCHANGED <<data, card, sdRest>>

\* write_block(data, offset, count), line 260
write_block ==
  /\ sd.pc = "idle" /\ sd.n < MaxSdOps
  /\ \E offset \in SdOffsets, count \in SdCounts :
       SdCall("write_block", offset, count, "cmd24", 0)
  /\ cs' = "low"
  /\ UNCHANGED <<data, card, sdRest>>

\* write_block, lines 263-266
wb_cmd24 ==
  /\ sd.pc = "cmd24"
  /\ \E r \in Resp :
       IF r # 0 THEN SdReturn(1, [sd.h EXCEPT !.r = r], sd.wrote)
       ELSE cs' = cs /\ sd' = [sd EXCEPT !.pc = "wdata", !.h.r = r]
  /\ UNCHANGED <<data, card, sdRest>>

\* write_block, lines 267-286: token, data, padding, dummy CRC, and the
\* data-response token of the card
wb_data ==
  /\ sd.pc = "wdata"
  /\ \E tok \in Tokens :
       LET p == sent_bytes(data, sd.count)
           h == [sd.h EXCEPT !.tok = tok, !.sent = Len(p)]
       IN IF ~data_accepted(tok)
          THEN SdReturn(1, h, sd.wrote) /\ card' = card
          ELSE /\ cs' = cs
               /\ sd' = [sd EXCEPT !.pc = "busy", !.h = h]
               /\ card' = [card EXCEPT ![sd.offset] = CardTakes(p)]
  /\ UNCHANGED <<data, sdRest>>

\* write_block, line 289, wait_notbusy: the card holds the line low for as
\* long as it likes.  polls counts the bytes polled since the caller's last
\* FEED_WATCHDOG (there is none in the loop), up to MaxPolls
wb_busy ==
  /\ sd.pc = "busy"
  /\ \E rec \in {0, 255} :
       sd' = IF rec # 255
             THEN [sd EXCEPT !.polls = IF @ < MaxPolls THEN @ + 1 ELSE @]
             ELSE [sd EXCEPT !.pc = "status"]
  /\ UNCHANGED <<cs, data, card, sdRest>>

\* write_block, lines 291-298: CMD13; the second byte is read when the first
\* is 0
wb_status ==
  /\ sd.pc = "status"
  /\ \E r1 \in Status1, r2 \in Status2 :
       LET h == [sd.h EXCEPT !.st1 = r1, !.st2 = IF r1 # 0 THEN -1 ELSE r2]
       IN IF ~status_ok(r1, IF r1 # 0 THEN 0 ELSE r2)
          THEN SdReturn(1, h, [sd.wrote EXCEPT ![sd.offset] = <<>>])
          ELSE SdReturn(0, h, [sd.wrote EXCEPT ![sd.offset] =
                                 <<[buf |-> data, count |-> sd.count]>>])
  /\ UNCHANGED <<data, card, sdRest>>

\* read_block(data, offset), line 305
read_block ==
  /\ sd.pc = "idle" /\ sd.n < MaxSdOps
  /\ \E offset \in SdOffsets : SdCall("read_block", offset, 0, "cmd17", 0)
  /\ cs' = "low"
  /\ UNCHANGED <<data, card, sdRest>>

\* read_block, lines 308-311
rb_cmd17 ==
  /\ sd.pc = "cmd17"
  /\ \E r \in Resp :
       IF r # 0 THEN SdReturn(1, [sd.h EXCEPT !.r = r], sd.wrote)
       ELSE cs' = cs /\ sd' = [sd EXCEPT !.pc = "token", !.h.r = r]
  /\ UNCHANGED <<data, card, sdRest>>

\* read_block, lines 313-325, wait_startblock: the token and the 512 bytes
\* of the block
rb_data ==
  /\ sd.pc = "token"
  /\ \E rec \in StartTokens :
       IF rec # 254
       THEN SdReturn(1, [sd.h EXCEPT !.tok = rec], sd.wrote) /\ data' = data
       ELSE /\ SdReturn(0, [sd.h EXCEPT !.tok = rec], sd.wrote)
            /\ data' = [x \in 1..Len(data) |->
                          IF x <= 512 THEN card[sd.offset][x] ELSE data[x]]
  /\ UNCHANGED <<card, sdRest>>

InitSteps == init_cmd0 \/ init_cmd8 \/ init_acmd41 \/ init_cmd58
NextSd ==
  \/ init_sd \/ init_cmd0 \/ init_cmd8 \/ init_acmd41 \/ init_cmd58
  \/ go_idle_sd
  \/ write_block \/ wb_cmd24 \/ wb_data \/ wb_busy \/ wb_status
  \/ read_block \/ rb_cmd17 \/ rb_data
\* the processor runs init_sd on; nothing in it waits for the card
SpecSd == InitSd /\ [][NextSd]_vars /\ WF_vars(InitSteps)

(***************************************************************************)
(* Properties of the block transport (SpecSd)                              *)
(***************************************************************************)
\* N bytes of buf followed by 512 - N zero bytes
Padded(buf, N) == [x \in 1..SectorSize |-> IF x <= N THEN buf[x] ELSE 0]

\* C16: a read_block that returns 0 at an offset where the last write_block
\* returned 0 leaves in the buffer the N bytes that were written (N = count,
\* or 512 for a count above 512) followed by 512 - N zero bytes; write_block
\* always sends 512 bytes between the start token and the dummy CRC
C16_RoundTrip ==
  /\ (sd.pc = "idle" /\ sd.op = "read_block" /\ sd.ret = 0
        /\ sd.wrote[sd.offset] # <<>>) =>
       LET w == sd.wrote[sd.offset][1]
           N == IF w.count > 512 THEN 512 ELSE w.count
       IN SubSeq(data, 1, SectorSize) = Padded(w.buf, N)
  /\ sd.h.sent \in {-1, SectorSize}

\* 300 bytes were written and read back: byte 299 is the byte written, byte
\* 300 is zero and is neither what the buffer held nor what the card held
C16_Witness ==
  /\ sd.pc = "idle" /\ sd.op = "read_block" /\ sd.ret = 0
  /\ sd.wrote[sd.offset] # <<>>
  /\ sd.wrote[sd.offset][1].count = 300
  /\ data[300] = sd.wrote[sd.offset][1].buf[300]
  /\ data[301] = 0
  /\ sd.wrote[sd.offset][1].buf[301] # 0

\* C17: whenever a transport operation has returned, chip select is high
C17_DeselectedAtReturn == (sd.pc = "idle" /\ sd.n > 0) => cs = "high"

\* C18: init_sd returns; it makes at most 10 attempts of CMD0 and at most
\* 0x1000 of ACMD41, each failed attempt using one up; it returns 0 exactly
\* when CMD0 was answered with 0x01, CMD8 with 0x01 and the echo 01 AA,
\* ACMD41 with 0x00 and CMD58 with 0x00, and 1 otherwise
C18_InitTerminates ==
  /\ []((sd.op = "init_sd" /\ sd.pc = "idle") =>
          /\ sd.ret \in {0, 1}
          /\ (sd.ret = 0) <=> (/\ sd.h.cmd0 /\ sd.h.cmd8 /\ sd.h.echo
                              /\ sd.h.acmd41 /\ sd.h.cmd58))
  /\ [](/\ sd.pc = "cmd0" => sd.tmr \in 0..short_timeout
        /\ sd.pc = "acmd41" => sd.tmr \in 0..long_timeout)
  /\ [][(sd.pc \in {"cmd0", "acmd41"} /\ sd'.pc = sd.pc) =>
          sd'.tmr = sd.tmr - 1]_vars
  /\ (sd.op = "init_sd" /\ sd.pc # "idle") ~> (sd.op = "init_sd" /\ sd.pc = "idle")

\* init_sd has given up after the last attempt of CMD0
C18_Witness ==
  /\ sd.op = "init_sd" /\ sd.pc = "idle" /\ sd.ret = 1
  /\ ~sd.h.cmd0 /\ ~sd.h.cmd8
  /\ cs = "high"

\* C19: write_block returns 1 when the data-response token does not have
\* 0x05 in its low five bits and when the first or the second byte of the
\* answer to CMD13 is not zero; it returns 0 exactly when CMD24 was answered
\* with 0x00, the token was 'accepted' and both status bytes were zero
C19_WriteFailures ==
  (sd.op = "write_block" /\ sd.pc = "idle") =>
    /\ (sd.h.tok # -1 /\ (sd.h.tok % 32) # 5) => sd.ret = 1
    /\ (sd.h.st1 > 0 \/ sd.h.st2 > 0) => sd.ret = 1
    /\ (sd.ret = 0) <=> (/\ sd.h.r = 0 /\ sd.h.tok # -1 /\ (sd.h.tok % 32) = 5
                        /\ sd.h.st1 = 0 /\ sd.h.st2 = 0)

\* the card took the data and the first status byte was zero, the second was
\* not: write_block has returned 1
C19_Witness ==
  /\ sd.op = "write_block" /\ sd.pc = "idle" /\ sd.ret = 1
  /\ sd.h.r = 0 /\ (sd.h.tok % 32) = 5 /\ sd.h.st1 = 0 /\ sd.h.st2 > 0

(***************************************************************************)
(* SpecBoot: main of the audio variant from wake-up to start_logging, on   *)
(* cards with the boot sector in block 0 or behind a master boot record:   *)
(* init_sd, read_boot_sector, parse_boot_sector, start_logging and the     *)
(* cluster offsets it computes from the mounted geometry.                  *)
(***************************************************************************)
\* wake-ups by the button in one behaviour
MaxWakes == 2

\* "FAT16", and what other volumes have at 0x36..0x3A
Fat16Tag == <<70, 65, 84, 49, 54>>
BootTags ==
  {Fat16Tag, <<70, 65, 84, 49, 50>>, <<32, 32, 32, 32, 32>>,
   <<102, 97, 116, 49, 54>>, <<70, 65, 84, 51, 50>>, <<0, 65, 84, 49, 54>>}
\* A uint32_t is kept as the pair <<high word, low word>> of its 16-bit
\* halves; an exact value is such a pair whose high word is not reduced.
Wide(hi, lo) == <<hi + (lo \div U16), lo % U16>>
Add32(x, y) == Wide(x[1] + y[1], x[2] + y[2])
\* the exact product of two 16-bit values, and of a pair and a 16-bit value
Mul16(a, b) ==
  LET p0 == (a % 256) * b
      p1 == (a \div 256) * b
  IN Wide((p0 \div U16) + (p1 \div 256), (p0 % U16) + ((p1 % 256) * 256))
Mul32(x, b) == Add32(<<x[1] * b, 0>>, Mul16(x[2], b))
\* the conversion to uint32_t
Trunc32(x) == <<x[1] % U16, x[2]>>

\* the bytes of a block that the code reads: 0x00, 0x0B, 0x0C (bytes per
\* sector), 0x0D, 0x0E, 0x0F, 0x10, 0x11, 0x12, 0x16, 0x17, 0x36..0x3A,
\* 0x1C6..0x1C9 (h), 0x1FE, 0x1FF
Zeros4 == <<0, 0, 0, 0>>
\* boot sectors that differ in the tag, the sector size and the signature
TagSectors ==
  [b00 : {235}, h : {Zeros4}, tag : BootTags, b0B : {0, 2}, b0C : {0, 2, 4},
   b0D : {1, 4}, b0E : {1}, b0F : {0}, b10 : {1, 2}, b11 : {0}, b12 : {2},
   b16 : {1, 128}, b17 : {0}, b1FE : {85}, b1FF : {170, 0}]
\* FAT16 boot sectors with sectors of 512 bytes that differ in the geometry:
\* 1, 64 or 128 sectors per cluster, 1 or 264 reserved sectors, 512, 1024,
\* 2047, 2048 or 65535 root entries, 1 or 256 sectors per FAT
GeoSectors ==
  [b00 : {235, 0}, h : {Zeros4}, tag : {Fat16Tag}, b0B : {0}, b0C : {2},
   b0D : {1, 64, 128}, b0E : {1, 8}, b0F : {0, 1}, b10 : {1, 2},
   b11 : {0, 255}, b12 : {2, 4, 7, 8, 255}, b16 : {1}, b17 : {0, 1},
   b1FE : {85}, b1FF : {170}]
BootSectors == TagSectors \cup GeoSectors

\* a block of zeros, and a master boot record whose first partition starts
\* at the sector h (little-endian), with or without the signature
Blank ==
  [b00 |-> 0, h |-> Zeros4, tag |-> <<0, 0, 0, 0, 0>>, b0B |-> 0, b0C |-> 0,
   b0D |-> 0, b0E |-> 0, b0F |-> 0, b10 |-> 0, b11 |-> 0, b12 |-> 0,
   b16 |-> 0, b17 |-> 0, b1FE |-> 0, b1FF |-> 0]
HiddenCounts ==
  {<<63, 0, 0, 0>>, <<1, 1, 0, 0>>, <<0, 32, 0, 0>>, <<0, 0, 128, 0>>,
   <<1, 0, 128, 0>>}
Mbrs ==
  {[Blank EXCEPT !.h = h, !.b1FE = sg[1], !.b1FF = sg[2]] :
     h \in HiddenCounts, sg \in {<<85, 170>>, <<0, 0>>}}
\* the cards: a boot sector in block 0, or a master boot record in block 0
\* and the boot sector where the partition starts
Cards ==
  {[mbr |-> <<>>, sector |-> v] : v \in BootSectors}
    \cup {[mbr |-> <<m>>, sector |-> v] : m \in Mbrs, v \in GeoSectors}

LE32(h) == <<h[3] + (256 * h[4]), h[1] + (256 * h[2])>>

\* the block of the card at a byte offset
BlockAt(mbr, sector, offset) ==
  IF mbr = <<>>
  THEN IF offset = <<0, 0>> THEN sector ELSE Blank
  ELSE IF offset = <<0, 0>> THEN mbr[1]
       ELSE IF offset = Mul32(LE32(mbr[1].h), SectorSize) THEN sector
       ELSE Blank

\* read_boot_sector(data), lines 473-497, on a card: the return value, the
\* buffer, the globals hidden_sectors and boot_offset and the offsets it
\* has read with the results of these reads (ios); io1 and io2 are the
\* results of the two read_block calls
read_boot_sector(mbr, sector, old, io1, io2) ==
  LET first  == BlockAt(mbr, sector, <<0, 0>>)
      hidden == LE32(first.h)
      offset == Trunc32(Mul32(hidden, 512))
      second == BlockAt(mbr, sector, offset)
      sig(d) == ((d.b1FE + (256 * d.b1FF)) % U16) # 43605
  IN IF io1 # 0
     THEN [ret |-> 1, data |-> old, hidden_sectors |-> <<0, 0>>, boot_offset |-> <<0, 0>>,
           reads |-> <<<<0, 0>>>>, ios |-> <<io1>>]
     ELSE IF first.b00 # 0
     THEN [ret |-> IF sig(first) THEN 1 ELSE 0, data |-> first,
           hidden_sectors |-> <<0, 0>>, boot_offset |-> <<0, 0>>, reads |-> <<<<0, 0>>>>, ios |-> <<io1>>]
     ELSE IF io2 # 0
     THEN [ret |-> 1, data |-> first, hidden_sectors |-> hidden,
           boot_offset |-> offset, reads |-> <<<<0, 0>>, offset>>,
           ios |-> <<io1, io2>>]
     ELSE [ret |-> IF sig(second) THEN 1 ELSE 0, data |-> second,
           hidden_sectors |-> hidden, boot_offset |-> offset,
           reads |-> <<<<0, 0>>, offset>>, ios |-> <<io1, io2>>]

\* a parse_boot_sector with one failure code for both tests
parse_boot_sector_one(d) ==
  LET bytes_per_sector == d.b0B + (256 * d.b0C)
      sectors_per_fat  == d.b16 + (256 * d.b17)
  IN IF ~(d.tag[1] = 70 /\ d.tag[2] = 65 /\ d.tag[3] = 84 /\ d.tag[4] = 49
          /\ d.tag[5] = 54)
     THEN [ret |-> 1, set |-> FALSE, spc |-> 0, nf |-> 0, fsz |-> 0]
     ELSE IF bytes_per_sector # 512
     THEN [ret |-> 1, set |-> TRUE, spc |-> d.b0D, nf |-> d.b10, fsz |-> 0]
     ELSE [ret |-> 0, set |-> TRUE, spc |-> d.b0D, nf |-> d.b10,
           fsz |-> bytes_per_sector * sectors_per_fat]

\* parse_boot_sector(data), lines 502-552: the return value and the globals
\* it has assigned by then (set: lines 524-531 were reached; fsz = 0: line
\* 537 was not)
parse_boot_sector(d) ==
  LET bytes_per_sector == d.b0B + (256 * d.b0C)
      sectors_per_fat  == d.b16 + (256 * d.b17)
  IN IF ~(d.tag[1] = 70 /\ d.tag[2] = 65 /\ d.tag[3] = 84 /\ d.tag[4] = 49
          /\ d.tag[5] = 54)
     THEN [ret |-> 1, set |-> FALSE, spc |-> 0, nf |-> 0, fsz |-> 0]
     ELSE IF bytes_per_sector # 512
     THEN [ret |-> 2, set |-> TRUE, spc |-> d.b0D, nf |-> d.b10, fsz |-> 0]
     ELSE [ret |-> 0, set |-> TRUE, spc |-> d.b0D, nf |-> d.b10,
           fsz |-> bytes_per_sector * sectors_per_fat]

\* the 16-bit int of the target converted to uint32_t
SignExtend16(w) == IF w >= 32768 THEN <<65535, w>> ELSE <<0, w>>

\* parse_boot_sector, lines 523-549: the globals after the tag test has
\* passed.  bytes_per_sector * sectors_per_cluster is a product of unsigned
\* int and wraps at 2^16; (data[0x11] | (data[0x12] << 8)) * 32 is a product
\* of int, whose overflow is undefined: it wraps at 2^16 and is sign-extended
\* or, where the compiler widens it (wide), is exact.  Lines 537-549 are not
\* reached when bytes_per_sector is not 512.
boot_geometry(d, old, boot_offset, wide) ==
  LET bytes_per_sector == (d.b0B + (256 * d.b0C)) % U16
      reserved_sectors == (d.b0E + (256 * d.b0F)) % U16
      sectors_per_fat  == (d.b16 + (256 * d.b17)) % U16
      entries          == d.b11 + (256 * d.b12)
      table_size       ==
        IF wide THEN Trunc32(Mul16(entries, 32))
        ELSE SignExtend16(Mul16(entries, 32)[2])
      table_offset     ==
        Trunc32(Add32(Add32(Mul16(bytes_per_sector, reserved_sectors),
                            Mul32(Mul16(sectors_per_fat, 512), d.b10)),
                      boot_offset))
      first ==
        [old EXCEPT !.bytes_per_sector = bytes_per_sector,
                    !.bytes_per_cluster = <<0, Mul16(bytes_per_sector, d.b0D)[2]>>,
                    !.reserved_sectors = reserved_sectors,
                    !.dir_table_size = table_size,
                    !.sectors_per_fat = sectors_per_fat]
  IN IF bytes_per_sector # 512 THEN first
     ELSE [first EXCEPT
             !.fat_offset =
               Trunc32(Add32(Mul16(reserved_sectors, bytes_per_sector),
                             boot_offset)),
             !.dir_table_offset = table_offset,
             !.file_cluster_offset = Trunc32(Add32(table_offset, table_size))]

\* the globals of sdfat.c, lines 44-59, before the first mount
NoGeometry ==
  [bytes_per_sector |-> 0, bytes_per_cluster |-> <<0, 0>>,
   reserved_sectors |-> 0, dir_table_size |-> <<0, 0>>, sectors_per_fat |-> 0,
   fat_offset |-> <<0, 0>>, dir_table_offset |-> <<0, 0>>,
   file_cluster_offset |-> <<0, 0>>]

\* cluster ids for which start_logging computes the offset
ClusterIds == {2, 3, 4, 258, 65535}
NoOffset == [c |-> 0, offset |-> <<0, 0>>]

\* start_logging of the sensor variant, lines 665-666: file_cluster_offset +
\* ((cluster_count - 2) * bytes_per_cluster), a uint16_t difference widened
\* to uint32_t, product and sum modulo 2^32
cluster_offset(c, g) ==
  Trunc32(Add32(g.file_cluster_offset,
                Mul32(g.bytes_per_cluster, (c - 2) % U16)))

bootRest ==
  <<fat, files, pending, returned, call, dir, disk, data_mic, data_sd,
    buffers, byte_num, dump_data, stop_flag, hold_flag, machVars, histVars,
    lg, scan, cs, sd, card>>

InitBoot ==
  /\ fat_size = SectorSize
  /\ number_of_fats = 1
  /\ fat = [k \in 1..1 |-> ScanImage(SectorSize, {})]
  /\ data = NoBlock
  /\ files = <<>> /\ pending = <<>> /\ returned = <<>>
  /\ call = [op |-> "none", n |-> 0]
  /\ ZappOff
  /\ lg = LgOff
  /\ scan = [pc |-> "off"]
  /\ cs = "high" /\ sd = [pc |-> "off"] /\ card = [mode |-> "off"]
  /\ \E v \in Cards :
       boot = [pc |-> "off", n |-> 0, sector |-> v.sector, mbr |-> v.mbr,
               ret |-> -1, rbs |-> -1, hidden_sectors |-> <<0, 0>>,
               boot_offset |-> <<0, 0>>, reads |-> <<>>, ios |-> <<>>,
               geo |-> NoGeometry, off |-> NoOffset]

\* main, lines 100-118: the button wakes the device from the off state
bt_wake ==
  /\ boot.pc = "off" /\ boot.n < MaxWakes
  /\ boot' = [boot EXCEPT !.pc = "init", !.n = @ + 1, !.ret = -1, !.rbs = -1,
                          !.reads = <<>>, !.ios = <<>>, !.off = NoOffset]
  /\ logging' = 0
  /\ UNCHANGED <<number_of_fats, fat_size, sectors_per_cluster, data, bootRest>>

\* main, lines 151-156: avail = init_sd(); goto start upon failure
bt_init ==
  /\ boot.pc = "init"
  /\ \E avail \in {0, 1} :
       boot' = [boot EXCEPT !.pc = IF avail # 0 THEN "off" ELSE "read"]
  /\ UNCHANGED <<number_of_fats, fat_size, sectors_per_cluster, data, logging,
                 bootRest>>

\* main, lines 164-168, read_boot_sector: a failure hangs the program
bt_read ==
  /\ boot.pc = "read"
  /\ \E io1 \in {0, 1}, io2 \in {0, 1} :
       LET r == read_boot_sector(boot.mbr, boot.sector, data, io1, io2)
       IN /\ data' = IF r.data = NoBlock THEN NoBlock
                     ELSE IF r.data = data THEN data
                     ELSE [kind |-> "boot", d |-> r.data]
          /\ boot' = [boot EXCEPT !.pc = IF r.ret # 0 THEN "hang" ELSE "parse",
                                  !.rbs = r.ret,
                                  !.hidden_sectors = r.hidden_sectors,
                                  !.boot_offset = r.boot_offset,
                                  !.reads = r.reads, !.ios = r.ios]
  /\ UNCHANGED <<number_of_fats, fat_size, sectors_per_cluster, logging, bootRest>>

\* main, lines 172-176: parse_boot_sector; goto start upon failure
bt_parse ==
  /\ boot.pc = "parse"
  /\ \E wide \in BOOLEAN :
       LET r == parse_boot_sector(data.d)
       IN /\ boot' = [boot EXCEPT
                        !.ret = r.ret,
                        !.pc = IF r.ret # 0 THEN "off" ELSE "log",
                        !.geo = IF r.set
                                THEN boot_geometry(data.d, @, boot.boot_offset, wide)
                                ELSE @]
          /\ sectors_per_cluster' = IF r.set THEN r.spc ELSE sectors_per_cluster
          /\ number_of_fats' = IF r.set THEN r.nf ELSE number_of_fats
          /\ fat_size' = IF r.fsz # 0 THEN r.fsz ELSE fat_size
  /\ UNCHANGED <<data, logging, bootRest>>

\* main, line 185, start_logging line 243: logging = 1
bt_log ==
  /\ boot.pc = "log"
  /\ boot' = [boot EXCEPT !.pc = "logging"]
  /\ logging' = 1
  /\ UNCHANGED <<number_of_fats, fat_size, sectors_per_cluster, data, bootRest>>

\* start_logging computes the offset of a cluster of the file
bt_offset ==
  /\ boot.pc = "logging"
  /\ \E c \in ClusterIds :
       boot' = [boot EXCEPT !.off = [c |-> c, offset |-> cluster_offset(c, boot.geo)]]
  /\ UNCHANGED <<number_of_fats, fat_size, sectors_per_cluster, data, logging,
                 bootRest>>

\* main, lines 185-196: start_logging returns; it is called again while it
\* returns an error, then the device goes back to the off state
bt_logged ==
  /\ boot.pc = "logging"
  /\ \E log_error \in {0, 1, 2} :
       /\ boot' = [boot EXCEPT !.pc = IF log_error # 0 THEN "log" ELSE "off"]
       /\ logging' = IF log_error # 0 THEN logging ELSE 0
  /\ UNCHANGED <<number_of_fats, fat_size, sectors_per_cluster, data, bootRest>>

NextBoot ==
  bt_wake \/ bt_init \/ bt_read \/ bt_parse \/ bt_log \/ bt_offset \/ bt_logged
SpecBoot == InitBoot /\ [][NextBoot]_vars

(***************************************************************************)
(* Properties of the mount (SpecBoot)                                      *)
(***************************************************************************)
TagOk(v) == v.tag = Fat16Tag
SizeOk(v) == v.b0B = 0 /\ v.b0C = 2

\* C20: parse_boot_sector returns one failure code when bytes 0x36-0x3A are
\* not "FAT16", another when bytes per sector is not 512 and 0 only when
\* both tests pass; main never calls start_logging on a volume for which it
\* has returned a failure code
C20_BootChecks ==
  /\ boot.ret # -1 =>
       /\ ~TagOk(data.d) => boot.ret = 1
       /\ (TagOk(data.d) /\ ~SizeOk(data.d)) => boot.ret = 2
       /\ (boot.ret = 0) <=> (TagOk(data.d) /\ SizeOk(data.d))
  /\ (boot.pc \in {"log", "logging"} \/ logging = 1) =>
       (boot.ret = 0 /\ TagOk(data.d) /\ SizeOk(data.d))

\* a FAT16 volume with sectors of 1024 bytes was refused with code 2 and the
\* device is back in the off state, not logging
C20_Witness ==
  /\ boot.pc = "off" /\ boot.ret = 2 /\ logging = 0
  /\ TagOk(data.d) /\ data.d.b0C = 4

\* the exact values of the fields of a boot sector
BytesPerSector(d) == d.b0B + (256 * d.b0C)
ReservedSectors(d) == d.b0E + (256 * d.b0F)
RootEntries16(d) == d.b11 + (256 * d.b12)

\* C21: after parse_boot_sector has returned 0, fat_offset = boot_offset +
\* reserved_sectors * bytes_per_sector, dir_table_offset = fat_offset +
\* number_of_fats * fat_size, file_cluster_offset = dir_table_offset +
\* dir_table_size and bytes_per_cluster = bytes_per_sector *
\* sectors_per_cluster (exact values), and start_logging leaves them as
\* they are
C21_Geometry ==
  /\ [](boot.ret = 0 =>
        LET g == boot.geo
        IN /\ g.fat_offset
                = Add32(boot.boot_offset,
                        Mul16(ReservedSectors(data.d), BytesPerSector(data.d)))
           /\ g.dir_table_offset
                = Add32(g.fat_offset, Mul16(fat_size \div SectorSize,
                                            SectorSize * number_of_fats))
           /\ g.file_cluster_offset
                = Add32(g.dir_table_offset, g.dir_table_size)
           /\ g.bytes_per_cluster
                = Mul16(BytesPerSector(data.d), data.d.b0D))
  /\ [][boot.pc \in {"log", "logging"} =>
          /\ boot'.geo = boot.geo /\ boot'.boot_offset = boot.boot_offset
          /\ <<fat_size, number_of_fats, sectors_per_cluster>>'
               = <<fat_size, number_of_fats, sectors_per_cluster>>]_vars

\* the same for volumes of at most 64 sectors per cluster and less than
\* 1024 root entries
C21_GeometrySmall ==
  [](boot.ret = 0 /\ data.d.b0D <= 64 /\ RootEntries16(data.d) < 1024 =>
        LET g == boot.geo
        IN /\ g.fat_offset
                = Add32(boot.boot_offset,
                        Mul16(ReservedSectors(data.d), BytesPerSector(data.d)))
           /\ g.dir_table_offset
                = Add32(g.fat_offset, Mul16(fat_size \div SectorSize,
                                            SectorSize * number_of_fats))
           /\ g.file_cluster_offset
                = Add32(g.dir_table_offset, g.dir_table_size)
           /\ g.dir_table_size = Mul16(RootEntries16(data.d), 32)
           /\ g.bytes_per_cluster
                = Mul16(BytesPerSector(data.d), data.d.b0D))

\* the signature 55 AA in the last two bytes of a block
Signed(d) == d.b1FE = 85 /\ d.b1FF = 170
FirstBlock == BlockAt(boot.mbr, boot.sector, <<0, 0>>)

\* C22: read_boot_sector reads block 0; if its first byte is 0x00,
\* boot_offset is 512 times the little-endian count at 0x1C6 and the block
\* at boot_offset is read next, otherwise boot_offset is 0 and nothing else
\* is read; it returns 1 if a read has failed or the block read last is
\* without the signature 55 AA, and 0 otherwise
C22_ReadBootSector ==
  boot.rbs # -1 =>
    /\ boot.reads[1] = <<0, 0>>
    /\ boot.ios[1] = 0 =>
         IF FirstBlock.b00 = 0
         THEN /\ boot.boot_offset = Mul32(LE32(FirstBlock.h), 512)
              /\ boot.reads = <<<<0, 0>>, boot.boot_offset>>
         ELSE /\ boot.boot_offset = <<0, 0>>
              /\ boot.reads = <<<<0, 0>>>>
    /\ boot.rbs \in {0, 1}
    /\ (boot.rbs = 0) <=>
         /\ \A i \in 1..Len(boot.ios) : boot.ios[i] = 0
         /\ data.kind = "boot"
         /\ data.d = BlockAt(boot.mbr, boot.sector, boot.reads[Len(boot.reads)])
         /\ Signed(data.d)

\* the same with the product taken modulo 2^32
C22_ReadBootSector32 ==
  boot.rbs # -1 =>
    /\ boot.reads[1] = <<0, 0>>
    /\ boot.ios[1] = 0 =>
         IF FirstBlock.b00 = 0
         THEN /\ boot.boot_offset = Trunc32(Mul32(LE32(FirstBlock.h), 512))
              /\ boot.reads = <<<<0, 0>>, boot.boot_offset>>
         ELSE /\ boot.boot_offset = <<0, 0>>
              /\ boot.reads = <<<<0, 0>>>>
    /\ boot.rbs \in {0, 1}
    /\ (boot.rbs = 0) <=>
         /\ \A i \in 1..Len(boot.ios) : boot.ios[i] = 0
         /\ data.kind = "boot"
         /\ data.d = BlockAt(boot.mbr, boot.sector, boot.reads[Len(boot.reads)])
         /\ Signed(data.d)

Less32(x, y) == x[1] < y[1] \/ (x[1] = y[1] /\ x[2] < y[2])

\* C23: the offset computed for a cluster c >= 2 of a mounted volume is
\* file_cluster_offset + (c - 2) * bytes_per_cluster (exact values, bytes
\* per cluster being bytes per sector times sectors per cluster), it is
\* file_cluster_offset for c = 2 and smaller than the offset of every
\* greater cluster id
C23_ClusterOffset ==
  (boot.pc = "logging" /\ boot.off.c >= 2) =>
    /\ boot.off.offset
         = Add32(boot.geo.file_cluster_offset,
                 Mul32(Mul16(BytesPerSector(data.d), data.d.b0D), boot.off.c - 2))
    /\ boot.off.c = 2 => boot.off.offset = boot.geo.file_cluster_offset
    /\ \A c \in ClusterIds :
         boot.off.c < c => Less32(boot.off.offset, cluster_offset(c, boot.geo))

\* the same for volumes of at most 64 sectors per cluster and less than
\* 1024 root entries
C23_ClusterOffsetSmall ==
  (/\ boot.pc = "logging" /\ boot.off.c >= 2
   /\ data.d.b0D <= 64 /\ RootEntries16(data.d) < 1024) =>
    /\ boot.off.offset
         = Add32(boot.geo.file_cluster_offset,
                 Mul32(Mul16(BytesPerSector(data.d), data.d.b0D), boot.off.c - 2))
    /\ boot.off.c = 2 => boot.off.offset = boot.geo.file_cluster_offset
    /\ \A c \in ClusterIds :
         boot.off.c < c => Less32(boot.off.offset, cluster_offset(c, boot.geo))

(***************************************************************************)
(* Properties of the interrupt handler and of the session layer (SpecZapp) *)
(***************************************************************************)
\* C24: a step of CCR0_ISR leaves the card (data area, FAT, directory), the
\* transfer in progress and the position of main as they are; its first
\* step stores one sample at byte_num in the buffer data_mic points to and
\* enters the swap only when byte_num has reached BUFF_SIZE; its last step
\* has exchanged data_mic and data_sd, set byte_num to 0 and dump_data to 1
C24_IsrNoSdIo ==
  [][(isr' # isr \/ nsamp' # nsamp) =>
       /\ <<disk, fat, dir, data, wr, pc, rc, sl, iofail, ringlog, copied>>'
            = <<disk, fat, dir, data, wr, pc, rc, sl, iofail, ringlog, copied>>
       /\ nsamp' # nsamp =>
            /\ nsamp' = nsamp + 1 /\ byte_num' = byte_num + 1
            /\ \A b \in DOMAIN buffers \ {data_mic} : buffers'[b] = buffers[b]
            /\ buffers'[data_mic].kind = "pcm"
            /\ buffers'[data_mic].s[byte_num + 1] = nsamp'
            /\ buffers[data_mic].kind = "pcm" =>
                 \A i \in (1..BUFF_SIZE) \ {byte_num + 1} :
                   buffers'[data_mic].s[i] = buffers[data_mic].s[i]
            /\ <<data_mic, data_sd, dump_data>>' = <<data_mic, data_sd, dump_data>>
            /\ (isr' # "idle") <=> (byte_num' = BUFF_SIZE)
       /\ nsamp' = nsamp => buffers' = buffers
       /\ (isr = "swapped" /\ isr' = "idle") =>
            /\ byte_num = BUFF_SIZE /\ byte_num' = 0 /\ dump_data' = 1
            /\ data_mic' = swap /\ data_sd' = data_mic /\ data_sd' = data_sd
            /\ data_mic' # data_sd']_vars

\* the handler has completed a buffer while write_block of the previous one
\* is in progress in main
C24_Witness ==
  /\ pc = "ring_writing" /\ isr = "idle" /\ dump_data = 1 /\ byte_num = 0
  /\ Len(filled) >= 2

\* C25: when start_logging has returned an error after a failed block
\* transfer, main does not call it again: it leaves the logging loop
C25_NoRetryAfterIoError ==
  [][(pc = "ret" /\ rc # 0 /\ iofail > 0 /\ pc' # pc) => pc' # "sl_entry"]_vars

(***************************************************************************)
(* Properties of the results of the FAT operations                         *)
(***************************************************************************)
\* C26: a find_cluster in which a block transfer has failed returns a value
\* other than 0, the result for a volume without a free cluster (SpecScan)
C26_FailureDistinct == (scan.pc = "done" /\ scan.failed) => scan.ret # 0

\* the same for get_file_num: when its first read_block has failed it returns
\* a value other than the first suffix 1 (SpecDir)
C26_FailureDistinctNum ==
  (call.op = "get_file_num" /\ call.io = 1) => call.ret # 1

(***************************************************************************)
(* Properties of the watchdog (SpecSd)                                     *)
(***************************************************************************)
\* C27: the polling loops feed the watchdog on each iteration: no second
\* byte is polled in a wait without a feed since the first
C27_FedEachIteration == sd.polls <= 1

\* two find_cluster calls in a row (SpecFat): the last call before this step
\* was a find_cluster that returned a cluster, and this step is a
\* find_cluster that returns one
TwoFinds ==
  /\ call.op = "find_cluster" /\ call.ret # 0
  /\ call'.op = "find_cluster" /\ call'.ret # 0
  /\ Len(returned') = Len(returned) + 1

\* C28 as stated: the second of two find_cluster calls in a row returns the
\* cluster id that the first has returned
C28_FindClusterIdempotent == [][TwoFinds => call'.ret = call.ret]_vars

\* C28: the first of two find_cluster calls in a row has claimed the cluster
\* it returned (entry 0xFFFF), and the second returns another, free cluster
\* with a greater id
C28_SecondFindNextFree ==
  [][TwoFinds => /\ fat[1][call.ret] = EOC
                 /\ call'.ret > call.ret
                 /\ fat[1][call'.ret] = 0]_vars

\* two files were started one after the other with different start clusters
C28_Witness ==
  /\ call.op = "find_cluster" /\ pending = <<>>
  /\ Len(files) = 2 /\ Len(returned) = 2
  /\ returned[1] < returned[2]
  /\ files[1].start = returned[1] /\ files[2].start = returned[2]

(***************************************************************************)
(* Properties of the FAT and of the extraction (SpecZapp)                  *)
(***************************************************************************)
\* C29: no step changes a nonzero entry of a FAT copy to 0x0000
C29_NeverFreed ==
  [][\A k \in DOMAIN fat : \A e \in DOMAIN fat[k] :
       fat[k][e] # 0 => fat'[k][e] # 0]_vars

\* the ring is chained in both FAT copies and a file beyond it has grown by
\* a cluster
C29_Witness ==
  /\ \A k \in {1, 2} : fat[k][2] = 3 /\ fat[k][6] = EOC
  /\ \E c \in (RingClusters + 2)..MaxCluster : fat[1][c] \notin {0, EOC}
  /\ pc = "round"

\* C30: whatever slot the ring cursor is at when the trigger comes, the
\* copy loop of the extraction copies at most one ring's worth of slots
C30_CopyWithinOneRing == Len(copied) <= RingSlots

\* the same when the cursor is not at the first slot of the ring
C30_CopyWithinOneRingElsewhere ==
  sl.circ_bookmark # circ_offset_end => Len(copied) < RingSlots

(***************************************************************************)
(* Properties of the data blocks of a session (SpecLog)                    *)
(***************************************************************************)
\* the clusters of the file of stream s, from its first cluster
FileChain(s) == Chain(fat, lg.start_cluster[s], MaxCluster)

\* C31: every data block written for a file lies in a cluster of the chain
\* of that file at a block index below sectors_per_cluster, the block
\* written on stop included
C31_WritesInOwnCluster ==
  \A i \in 1..Len(lg.writes) :
    /\ lg.writes[i].block < sectors_per_cluster
    /\ lg.writes[i].cluster \in FileChain(lg.writes[i].s)

\* the same for the blocks written because a buffer held 512 bytes
C31_FullBlocksInOwnCluster ==
  \A i \in 1..Len(lg.writes) :
    lg.writes[i].n = SectorSize =>
      /\ lg.writes[i].block < sectors_per_cluster
      /\ lg.writes[i].cluster \in FileChain(lg.writes[i].s)

(***************************************************************************)
(* SpecLink: update_fat(cluster * 2, tmp16), the call of start_logging     *)
(* that points the last cluster of a file at the cluster claimed for it,   *)
(* on volumes whose FAT has up to 65,536 entries.  The FAT holds the       *)
(* entries of its domain; every other entry reads 0xFFFF.                  *)
(***************************************************************************)
\* calls of update_fat in one behaviour
MaxLinks == 2
\* sizes of one FAT in bytes: one sector, 128 sectors (64 KiB), 256 sectors
LinkFatSizes == {SectorSize, 128 * SectorSize, 256 * SectorSize}
\* cluster ids: the first two, the first of the second sector, 0x8000,
\* 0x8002, 0xFFEF and the id 0x8000 below it
LinkClusters == {2, 3, 256, 32751, 32768, 32770, 65519}
\* a FAT whose clusters are all ends of a chain
LinkImage(fsz) ==
  [e \in {0, 1} \cup {c \in LinkClusters : 2 * c < fsz} |->
     IF e = 0 THEN 65528 ELSE EOC]
linkRest == <<files, pending, returned, zappVars, lg, driverVars>>

InitLink ==
  /\ fat_size \in LinkFatSizes
  /\ number_of_fats \in 1..2
  /\ fat = [k \in 1..number_of_fats |-> LinkImage(fat_size)]
  /\ data = NoBlock
  /\ files = <<>> /\ pending = <<>> /\ returned = <<>>
  /\ call = [op |-> "none", n |-> 0]
  /\ ZappOff
  /\ lg = LgOff
  /\ DriverOff

\* update_fat(cluster_num * 2, tmp16): the argument is converted to the
\* uint16_t parameter index; tmp16 is a cluster find_cluster has marked
lk_link ==
  /\ call.n < MaxLinks
  /\ \E prev \in DOMAIN fat[1] \ {0, 1}, next \in DOMAIN fat[1] \ {0, 1},
        io \in 0..3 :
       /\ prev # next
       /\ fat[1][next] = EOC
       /\ LET r == update_fat(fat, number_of_fats, fat_size, data,
                              (prev * 2) % U16, next, io)
          IN /\ fat' = r.fat
             /\ data' = r.data
             /\ call' = [op |-> "update_fat", n |-> call.n + 1, io |-> io,
                         prev |-> prev, next |-> next, ret |-> r.ret,
                         before |-> fat]
  /\ UNCHANGED <<number_of_fats, fat_size, linkRest>>

NextLink == lk_link
SpecLink == InitLink /\ [][NextLink]_vars

(***************************************************************************)
(* Properties of the link (SpecLink)                                       *)
(***************************************************************************)
\* the entries of every FAT copy after the call are those before it, but
\* for the entry of prev, which is next
OnlyPrevChanged ==
  \A k \in DOMAIN fat : \A e \in DOMAIN fat[k] :
    fat[k][e] = IF e = call.prev THEN call.next ELSE call.before[k][e]

\* C32: linking prev to next changes the FAT entry of prev to next and no
\* other entry, for every pair of cluster ids of 2..0xFFEF
C32_LinkChangesOnlyPrev ==
  (call.op = "update_fat" /\ call.ret = 0) => OnlyPrevChanged

\* the same for prev below 0x8000 on a volume whose FAT copies agree
C32_LinkChangesOnlyPrevLow ==
  (/\ call.op = "update_fat" /\ call.ret = 0 /\ call.prev < 32768
   /\ \A k \in DOMAIN call.before : call.before[k] = call.before[1])
    => OnlyPrevChanged

(***************************************************************************)
(* Properties of the recording rounds (SpecZapp)                           *)
(***************************************************************************)
FilledBlocks == {filled[j] : j \in 1..Len(filled)}

\* C33: as long as no buffer was completed while the previous one was
\* undrained, every block written into the ring is a buffer CCR0_ISR
\* filled, never a buffer the extraction used for a header, FAT or
\* directory sector, also in a second or later round
C33_RingBlocksWereFilled ==
  (overruns = 0) =>
    \A i \in 1..Len(ringlog) : ringlog[i].blk \in FilledBlocks

\* no round starts with the flag dump_data left set by the round before
C33_RoundStartsWithoutFlag ==
  (pc = "round" /\ overruns = 0) => dump_data = 0

\* the same in the first round of a call of start_logging
C33_FirstRoundBlocksWereFilled ==
  (overruns = 0) =>
    \A i \in 1..Len(ringlog) :
      ringlog[i].round = 1 => ringlog[i].blk \in FilledBlocks

(***************************************************************************)
(* Properties of the committed files (SpecLog)                             *)
(***************************************************************************)
CeilDiv(a, b) == (a + b - 1) \div b
\* a session has returned 0 and no block transfer failed
Committed == pc = "lg_ret" /\ rc = 0 /\ iofail = 0

\* C34: when the directory entry of a file that holds data is committed,
\* its chain has ceil(file size / bytes per cluster) clusters: no cluster is
\* claimed after the last data block
C34_ChainMatchesSize ==
  Committed =>
    \A s \in Active :
      lg.total_bytes[s] > 0 =>
        Cardinality(FileChain(s)) = CeilDiv(lg.total_bytes[s], bytes_per_cluster)

\* the chain has that many clusters or one more
C34_ChainAtMostOneLonger ==
  Committed =>
    \A s \in Active :
      Cardinality(FileChain(s)) \in
        {CeilDiv(lg.total_bytes[s], bytes_per_cluster),
         CeilDiv(lg.total_bytes[s], bytes_per_cluster) + 1}

(***************************************************************************)
(* SpecUsed: the audio variant on a card that another writer has used: a   *)
(* file of two clusters ("PICT042 JPG", clusters 2 and 3) is listed in the *)
(* first slot of the directory table, the other clusters are free.         *)
(***************************************************************************)
\* a block of the file that was on the card at mount
FileBlock(n) == [kind |-> "old", n |-> n]
OldClusters == <<2, 3>>
OldFile == [Other42 EXCEPT !.b26 = OldClusters[1], !.b27 = 0,
                           !.b28 = 0, !.b29 = 2 * Len(OldClusters) * sectors_per_cluster,
                           !.b30 = 0, !.b31 = 0]
UsedImage ==
  [e \in 0..MaxCluster |->
     IF e = 0 THEN 65528
     ELSE IF e = 1 \/ e = OldClusters[2] THEN EOC
     ELSE IF e = OldClusters[1] THEN OldClusters[2] ELSE 0]

InitUsed ==
  /\ fat_size = SectorSize
  /\ number_of_fats = 2
  /\ fat = [k \in 1..2 |-> UsedImage]
  /\ data = NoBlock
  /\ files = <<>> /\ pending = <<>> /\ returned = <<>>
  /\ call = [op |-> "none", ret |-> 0, entry |-> 0, num |-> 0]
  /\ sectors_per_cluster \in 1..MaxSectorsPerCluster
  /\ dir = [n \in 1..RootEntries |-> IF n = 1 THEN OldFile ELSE FreeEntry]
  /\ disk = [o \in DataOffsets |->
               IF o < get_cluster_offset(OldClusters[2] + 1)
               THEN FileBlock((o - file_cluster_offset) \div SectorSize)
               ELSE NoBlock]
  /\ ProgOff
  /\ lg = LgOff
  /\ DriverOff

SpecUsed == InitUsed /\ [][NextZapp]_vars

(***************************************************************************)
(* Properties of the ring clusters (SpecZapp, SpecUsed)                    *)
(***************************************************************************)
RingClusterIds == 2..(RingClusters + 1)
\* the slots of the directory table that list a file
ListedEntries == {n \in 1..Len(dir) : dir[n].b0 \notin {0, Deleted}}

\* C35: once a recording round has started, no cluster of the ring belongs
\* to the chain of a file listed in the directory table
C35_RingNotInFiles ==
  round > 0 =>
    \A n \in ListedEntries :
      Chain(fat, EntryCluster(dir[n]), MaxCluster) \cap RingClusterIds = {}

\* no step changes a block of a file that was on the card at mount
C35_OldDataKept ==
  [][\A o \in DOMAIN disk : disk[o].kind = "old" => disk'[o] = disk[o]]_vars

\* the extraction never gets a ring cluster from find_cluster
C35_FindClusterOutsideRing ==
  round > 0 => sl.start_cluster \notin RingClusterIds /\ sl.cluster_num \notin RingClusterIds

(***************************************************************************)
(* SpecSdRun: the block transport with a processor that runs on in every   *)
(* operation.  The steps of write_block and read_block whose loops count   *)
(* down are taken sooner or later; how long the wait of wait_notbusy       *)
(* lasts is the card's choice, so nothing forces that wait to end.  A      *)
(* behaviour that stays in the wait is a card that never releases the      *)
(* line.                                                                   *)
(***************************************************************************)
WriteSteps == wb_cmd24 \/ wb_data \/ wb_status
ReadSteps == rb_cmd17 \/ rb_data
SpecSdRun ==
  /\ InitSd /\ [][NextSd]_vars
  /\ WF_vars(InitSteps) /\ WF_vars(WriteSteps) /\ WF_vars(ReadSteps)

(***************************************************************************)
(* Termination of the block transport (SpecSdRun)                          *)
(***************************************************************************)
Running(op) == sd.op = op /\ sd.pc # "idle"
Returned(op) == sd.op = op /\ sd.pc = "idle"

\* C36: write_block and read_block return for every behaviour of the card,
\* also for a card that holds the line busy for ever
C36_BlockOpsTerminate ==
  /\ Running("write_block") ~> Returned("write_block")
  /\ Running("read_block") ~> Returned("read_block")

\* read_block returns for every behaviour of the card
C36_ReadBlockTerminates ==
  Running("read_block") ~> Returned("read_block")

\* write_block returns or reaches the wait for the card to leave busy
C36_WriteBlockReturnsOrWaits ==
  Running("write_block") ~> (Returned("write_block") \/ sd.pc = "busy")

(***************************************************************************)
(* Properties of the file size of a stopped session (SpecLog)              *)
(***************************************************************************)
\* the bytes the session of the accelerometer build has put into data_accel:
\* the header text and the lines
AppendedAccel == AccelHeaderLen + (lg.lines * lg.len)
\* a session of the accelerometer build that wrote at least one block was
\* stopped and has returned 0, and no block transfer failed
StoppedAccel ==
  /\ Committed /\ stop_flag = 1
  /\ lg.streams = {"accel"} /\ lg.writes # <<>>

\* C37: the size committed for the file of a stopped session is the number
\* of bytes the session appended to the data buffer of the file
C37_SizeIsBytesAppended ==
  StoppedAccel => lg.total_bytes["accel"] = AppendedAccel

\* the same when the block written last left no byte beyond position 512
C37_SizeIsBytesAppendedNoSpill ==
  (StoppedAccel /\ lg.data_len["accel"] <= SectorSize) =>
    lg.total_bytes["accel"] = AppendedAccel

\* the bytes missing from the file are those beyond position 512
C37_MissingBytesAreSpill ==
  (StoppedAccel /\ lg.data_len["accel"] > SectorSize) =>
    lg.total_bytes["accel"] + (lg.data_len["accel"] - SectorSize) = AppendedAccel

(***************************************************************************)
(* Properties of the directory write-back (SpecDir)                        *)
(***************************************************************************)
\* update_dir_table was called on a table whose first reusable slot is in
\* the first sector
FirstSectorCall ==
  /\ call.op = "update_dir_table"
  /\ FirstFreeEntry(call.before, 0) < EntriesPerSector

\* C38: when update_dir_table has returned 0, the sector with the new entry
\* has been written: the slot on the card holds the new record
C38_SuccessMeansWritten ==
  (FirstSectorCall /\ call.ret = 0) =>
    LET n == FirstFreeEntry(call.before, 0) + 1
    IN /\ dir[n].b0 = Prefix(call.type)
       /\ EntryCluster(dir[n]) = call.cluster
       /\ EntrySize(dir[n]) = call.file_size

\* a failed read of the directory sector is reported
C38_ReadFailureReported ==
  (FirstSectorCall /\ call.io = 1) => (call.ret = 1 /\ dir = call.before)

\* when no transfer fails, success means written
C38_SuccessMeansWrittenNoFailure ==
  (FirstSectorCall /\ call.ret = 0 /\ call.io = 0) =>
    LET n == FirstFreeEntry(call.before, 0) + 1
    IN /\ dir[n].b0 = Prefix(call.type)
       /\ EntryCluster(dir[n]) = call.cluster
       /\ EntrySize(dir[n]) = call.file_size

(***************************************************************************)
(* SpecNames: the directory commit that ends an extraction of the audio    *)
(* variant, file_num = get_file_num(); update_dir_table(..., file_num),    *)
(* session after session, on tables that hold files of earlier sessions.   *)
(***************************************************************************)
\* commits in one behaviour
MaxCommits == 3
\* the entry of an earlier session with suffix num
Wav(num) == dte(7 + (num % 5), SectorSize * 3, num)
NameTables ==
  {Pad(<<>>, EntriesPerSector),
   Pad(<<Wav(1), Wav(2)>>, EntriesPerSector),
   Pad(<<Wav(998)>>, EntriesPerSector),
   Pad(<<Wav(1), Wav(999)>>, EntriesPerSector)}

InitNames ==
  /\ fat_size = SectorSize
  /\ number_of_fats = 1
  /\ fat = [k \in 1..1 |-> ScanImage(SectorSize, {})]
  /\ data = NoBlock
  /\ files = <<>> /\ pending = <<>> /\ returned = <<>>
  /\ call = [op |-> "none", n |-> 0, failed |-> FALSE]
  /\ sectors_per_cluster = 1
  /\ dir \in NameTables
  /\ disk = <<>>
  /\ ProgOff
  /\ lg = LgOff
  /\ DriverOff

\* start_logging, lines 493-500; io is the ordinal of the block transfer
\* that fails (1: the read of get_file_num, 2: the read of
\* update_dir_table, 3: its write)
nm_commit ==
  /\ call.n < MaxCommits
  /\ \E start_cluster \in DirClusters, total_bytes \in DirSizes, io \in 0..3 :
       LET gf == get_file_num(dir, data, IF io = 1 THEN 1 ELSE 0)
           ud == update_dir_table_wav(dir, gf.data, start_cluster, total_bytes,
                                      gf.ret, IF io > 1 THEN io - 1 ELSE 0)
       IN /\ dir' = ud.dir
          /\ data' = ud.data
          /\ call' = [op |-> "commit", n |-> call.n + 1,
                      failed |-> (call.failed \/ io # 0),
                      file_num |-> gf.ret, ret |-> ud.ret]
  /\ UNCHANGED dirRest

NextNames == nm_commit
SpecNames == InitNames /\ [][NextNames]_vars

(***************************************************************************)
(* Properties of the file names (SpecNames)                                *)
(***************************************************************************)
\* the bytes of the 8.3 name that differ between the files of the engine
Name(e) == <<e.b0, e.d4, e.d5, e.d6>>
NamesDistinct ==
  \A x \in ListedEntries : \A y \in ListedEntries :
    x # y => Name(dir[x]) # Name(dir[y])

\* C39: as long as no block transfer failed, no two listed entries have the
\* same name, also once an entry with suffix 999 exists
C39_NamesDistinct == ~call.failed => NamesDistinct

\* the same as long as no listed entry has the suffix 999
C39_NamesDistinctBelow999 ==
  (~call.failed /\ \A x \in ListedEntries : Suffix(dir[x]) # 999)
    => NamesDistinct

(***************************************************************************)
(* Properties of the ring cursor (SpecZapp)                                *)
(***************************************************************************)
\* the positions of the recording loop, lines 293-325
RingLoop == {"ring_test", "ring_wait", "ring_write", "ring_writing"}
InRing(o) ==
  /\ circ_offset_begin <= o /\ o < circ_offset_end
  /\ (o - circ_offset_begin) % SectorSize = 0

=============================================================================
